---------------------------- MODULE Spec2Model ----------------------------
(***************************************************************************)
(* A model of the editing core of the Civet language server: the import    *)
(* specifier scanner (civet-parser), the file dependency graph, the        *)
(* file-move rename builder, the symbol rename resolver and the rename     *)
(* barrier of the server.                                                  *)
(*                                                                         *)
(* Texts and paths are sequences of one-character strings, indexed from 0  *)
(* through At/Substring/IndexOf as the JavaScript source indexes them.     *)
(***************************************************************************)
EXTENDS Integers, Sequences, FiniteSets, TLC

VARIABLES
  \* --- scanner run (findAllImports as a loop) ---
  text,        \* the content handed to findAllImports
  ntok,        \* number of tokens the content was assembled from
  phase,       \* "build" | "scan" | "done"
  si,          \* the outer loop's index i
  results,     \* the ImportMatch list built so far
  \* --- dependency graph under its public operations ---
  graph,       \* DependencyGraph.graph: path -> [imports, importedBy]
  lastOp,      \* the last completed public operation and its arguments
  pre,         \* the graph as it was before the last operation
  nops,        \* number of operations completed so far
  \* --- the workspace the server sees ---
  docs,        \* documents: path -> text of each open document
  disk,        \* the files on disk: path -> text
  \* --- file-move rename builder run ---
  movePhase,   \* "edit" | "done"
  moveBatch,   \* params.files of the computeRenameEdits call
  moveResult,  \* what computeRenameEdits returned
  nchanges,    \* number of content changes so far
  \* --- the server: build task, change queue, rename barrier ---
  ready,                      \* dependencyGraph.isReady has resolved
  bpc,                        \* the background build: "scheduled" | "off" | "list" | "pass2" | "done"
  bfiles,                     \* files pass 2 of the build has still to read
  bscan,                      \* allFiles while build runs: file -> "pending" | "read" | "failed"
  changeQueue,                \* documents changed since the last batch
  executeTimeout,             \* an executeQueue run is scheduled or running
  documentUpdateStatus,       \* documents with an update pending
  runningDiagnosticsUpdate,   \* "undefined" | "live" | "canceled"
  passes,                     \* the updateProjectDiagnostics calls, in order of start
  contentWaiters,             \* change handlers waiting for isReady
  qpc,                        \* executeQueue: "idle" | "timer" | "barrier" | "group" | "diag"
  qfound,                     \* the barrier the run found when it began (0: none)
  qdocs,                      \* the batch the run snapshotted, still to be diagnosed
  activeRenameBarrier,        \* the barrier slot: an id, or 0 for undefined
  created,                    \* number of barriers created so far
  released,                   \* the barriers that were resolved
  wills,                      \* the will-rename handlers, by the barrier each created
  outstanding,                \* will-renames whose did-rename is still to come
  dids,                       \* did-rename handlers between their await and their end
  serviceUp,                  \* the project's service: "none" | "up" | "broken"
  resident,                   \* the files resident in the engine (service.host)
  invalidated,                \* the files invalidated for re-read (host.invalidatePath)
  filesToRefreshAfterRename,  \* [defined, uris]
  nevents,                    \* number of content-change notifications so far
  requests,    \* request handlers that awaited updating(document): document and position
  \* --- symbol rename resolver run (handleRename) ---
  symPhase,      \* "setup" | "loop" | "done"
  symLocs,       \* the locations the engine reports (findRenameLocations)
  symIdx,        \* the location the loop is at
  symChanges,    \* workspaceEdit.changes: uri -> edits
  aliasChanges,  \* the alias changes queued for propagation
  symResult,     \* "pending" | "null" | "edit" | "threw": how handleRename ended
  symEngine,     \* what the collaborators of this handleRename call do
  \* --- ensureServiceForSourcePath under concurrent calls ---
  projectPathToPendingPromiseMap,  \* project path -> the call whose loadPlugins() is pending
  projectPathToServiceMap,         \* project path -> service instance
  ensureCalls,                     \* the calls: [pc, service], in order of arrival
  spawned                          \* the service instances TSService has been asked for

scanVars == <<text, ntok, phase, si, results>>
graphVars == <<graph, lastOp, pre, nops>>
docVars == <<docs, disk>>
moveVars == <<movePhase, moveBatch, moveResult, nchanges>>
buildVars == <<ready, bpc, bfiles, bscan>>
queueVars == <<changeQueue, executeTimeout, documentUpdateStatus,
               runningDiagnosticsUpdate, passes, contentWaiters, qpc, qfound, qdocs,
               nevents>>
barrierVars == <<activeRenameBarrier, created, released, wills, outstanding, dids,
                 filesToRefreshAfterRename>>
engineVars == <<serviceUp, resident, invalidated>>
requestVars == <<requests>>
orchVars == <<buildVars, queueVars, barrierVars, engineVars, requestVars>>
symVars == <<symPhase, symLocs, symIdx, symChanges, aliasChanges, symResult, symEngine>>

svcVars == <<projectPathToPendingPromiseMap, projectPathToServiceMap, ensureCalls, spawned>>

vars == <<scanVars, graphVars, docVars, moveVars, orchVars, symVars, svcVars>>

\* what the actions of each run leave alone
nonScanVars == <<graphVars, docVars, moveVars, orchVars, symVars, svcVars>>
nonGraphVars == <<scanVars, docVars, moveVars, orchVars, symVars, svcVars>>
nonMoveVars == <<scanVars, lastOp, pre, nops, orchVars, symVars, svcVars>>
nonOrchVars == <<scanVars, lastOp, pre, nops, moveVars, symVars, svcVars>>
nonSymVars == <<scanVars, graphVars, disk, moveVars, orchVars, svcVars>>

-----------------------------------------------------------------------------
(* JavaScript string primitives on sequences of characters                 *)

\* the value of an out-of-range index (content[i] is undefined)
Undef == "undefined"

At(s, i) == IF i >= 0 /\ i < Len(s) THEN s[i + 1] ELSE Undef

MinOf(S) == CHOOSE x \in S : \A y \in S : x <= y
MaxOf(S) == CHOOSE x \in S : \A y \in S : x >= y

Clamp(n, len) == IF n < 0 THEN 0 ELSE IF n > len THEN len ELSE n

\* String.prototype.substring(a, b): both ends clamped, swapped when a > b
Substring(s, a, b) ==
  LET ca == Clamp(a, Len(s))
      cb == Clamp(b, Len(s))
      lo == IF ca <= cb THEN ca ELSE cb
      hi == IF ca <= cb THEN cb ELSE ca
  IN SubSeq(s, lo + 1, hi)

\* String.prototype.slice(a) for a >= 0
SliceFrom(s, a) == Substring(s, a, Len(s))

\* String.prototype.indexOf(pat, from)
IndexOf(s, pat, from) ==
  LET f == IF from < 0 THEN 0 ELSE from
      S == {k \in f .. (Len(s) - Len(pat)) : SubSeq(s, k + 1, k + Len(pat)) = pat}
  IN IF S = {} THEN -1 ELSE MinOf(S)

\* String.prototype.lastIndexOf(pat)
LastIndexOf(s, pat) ==
  LET S == {k \in 0 .. (Len(s) - Len(pat)) : SubSeq(s, k + 1, k + Len(pat)) = pat}
  IN IF S = {} THEN -1 ELSE MaxOf(S)

StartsWith(s, pat) == Len(s) >= Len(pat) /\ SubSeq(s, 1, Len(pat)) = pat

EndsWith(s, pat) ==
  Len(s) >= Len(pat) /\ SubSeq(s, Len(s) - Len(pat) + 1, Len(s)) = pat

\* the regular expression classes \s and \w, over the characters of the model
WhiteSpace == {" ", "\n", "\t"}
Letters == {"a", "b", "c", "d", "e", "f", "g", "h", "i", "j", "k", "l", "m",
            "n", "o", "p", "q", "r", "s", "t", "u", "v", "w", "x", "y", "z"}
Digits == {"0", "1", "2", "3", "4", "5", "6", "7", "8", "9"}
WordChars == Letters \cup Digits \cup {"_"}

IsWs(c) == c \in WhiteSpace
IsWord(c) == c \in WordChars

kwImport == <<"i", "m", "p", "o", "r", "t">>
kwExport == <<"e", "x", "p", "o", "r", "t">>
kwFrom == <<"f", "r", "o", "m">>
kwType == <<"t", "y", "p", "e">>

-----------------------------------------------------------------------------
(* civet-parser: isRealKeyword, stripQuotes, isInCommentOrString           *)

\* a check that takes every occurrence for a keyword
isRealKeywordAnywhere(content, index, keyword) == TRUE

\* the keyword at index is not part of a longer word
isRealKeyword(content, index, keyword) ==
  IF index > 0 /\ IsWord(At(content, index - 1)) THEN FALSE
  ELSE LET nextChar == At(content, index + Len(keyword))
       IN nextChar = Undef \/ ~IsWord(nextChar)

stripQuotes(t) ==
  IF (StartsWith(t, <<"\"">>) /\ EndsWith(t, <<"\"">>))
     \/ (StartsWith(t, <<"'">>) /\ EndsWith(t, <<"'">>))
  THEN \* text.slice(1, -1)
       Substring(t, 1, IF Len(t) - 1 < 1 THEN 1 ELSE Len(t) - 1)
  ELSE t

NoString == "null"

\* the template-literal quote (U+0060), which a TLA+ string cannot hold
Backtick == "BACKTICK"

\* the while loop of isInCommentOrString over (i, inString, escapeNext)
isInCommentOrString(content, pos) ==
  LET loop[i \in Nat, inString \in {NoString, "\"", "'", Backtick},
           escapeNext \in BOOLEAN] ==
        IF ~(i < pos /\ i < Len(content)) THEN inString # NoString
        ELSE IF inString # NoString /\ escapeNext
          THEN loop[i + 1, inString, FALSE]
        ELSE IF inString # NoString
          THEN IF At(content, i) = "\\" THEN loop[i + 1, inString, TRUE]
               ELSE IF At(content, i) = inString THEN loop[i + 1, NoString, escapeNext]
               ELSE loop[i + 1, inString, escapeNext]
        ELSE IF At(content, i) \in {"\"", "'", Backtick}
          THEN loop[i + 1, At(content, i), escapeNext]
        ELSE IF At(content, i) = "/" /\ At(content, i + 1) = "/"
          THEN LET newlinePos == IndexOf(content, <<"\n">>, i)
               IN IF newlinePos = -1 \/ pos < newlinePos THEN TRUE
                  ELSE loop[newlinePos + 1, inString, escapeNext]
        ELSE IF At(content, i) = "/" /\ At(content, i + 1) = "*"
          THEN LET endComment == IndexOf(content, <<"*", "/">>, i + 2)
               IN IF endComment = -1 \/ pos < endComment + 2 THEN TRUE
                  ELSE loop[endComment + 2, inString, escapeNext]
        ELSE loop[i + 1, inString, escapeNext]
  IN loop[0, NoString, FALSE]

-----------------------------------------------------------------------------
(* civet-parser: findAllImports                                            *)

\* while (i < content.length && /\s/.test(content[i])) i++
SkipWs(content, from) ==
  LET loop[i \in Nat] ==
        IF i < Len(content) /\ IsWs(At(content, i)) THEN loop[i + 1] ELSE i
  IN loop[from]

\* while (i < content.length && content[i] !== '\n') i++
SkipLine(content, from) ==
  LET loop[i \in Nat] ==
        IF i < Len(content) /\ At(content, i) # "\n" THEN loop[i + 1] ELSE i
  IN loop[from]

\* while (i < content.length && (content[i] !== '*' || content[i+1] !== '/')) i++
SkipBlock(content, from) ==
  LET loop[i \in Nat] ==
        IF i < Len(content) /\ (At(content, i) # "*" \/ At(content, i + 1) # "/")
        THEN loop[i + 1] ELSE i
  IN loop[from]

\* the specifier's end: the index of the closing quote, or past the text
SpecEnd(content, specStart, stringChar) ==
  LET loop[specEnd \in Nat] ==
        IF specEnd < Len(content) /\ At(content, specEnd) # stringChar
        THEN loop[(IF At(content, specEnd) = "\\" THEN specEnd + 1 ELSE specEnd) + 1]
        ELSE specEnd
  IN loop[specStart]

\* a classification that only looks at the from token
MatchTypeByFrom(foundFrom, potentialSideEffect) ==
  IF foundFrom THEN "from" ELSE "side-effect"

\* foundFrom ? 'from' : (potentialSideEffect ? 'side-effect' : 'from')
MatchType(foundFrom, potentialSideEffect) ==
  IF foundFrom THEN "from"
  ELSE IF potentialSideEffect THEN "side-effect" ELSE "from"

\* the quoted string found at index i becomes an ImportMatch
CaptureSpecifier(content, i, foundFrom, potentialSideEffect) ==
  LET stringChar == At(content, i)
      specOffset == i
      specStart == i + 1
      ends == {SpecEnd(content, specStart, stringChar)}
      type == MatchType(foundFrom, potentialSideEffect)
  IN CHOOSE r \in
       { [i |-> specEnd + 1,
          match |-> <<[spec |-> Substring(content, specStart, specEnd),
                       offset |-> specOffset,
                       length |-> (specEnd - specStart) + 2,
                       type |-> type]>>] : specEnd \in ends } : TRUE

\* one iteration of the inner loop, entered with i < content.length: the
\* next (i, braceLevel, foundFrom, potentialSideEffect), whether the loop
\* was left by `break`, and the match pushed (if any)
InnerStep(content, i, braceLevel, foundFrom, potentialSideEffect) ==
  LET char == At(content, i)
      Go(j, level, from, side) ==
        [left |-> FALSE, i |-> j, match |-> <<>>, braceLevel |-> level,
         foundFrom |-> from, potentialSideEffect |-> side]
      Leave(j, match) ==
        [left |-> TRUE, i |-> j, match |-> match, braceLevel |-> braceLevel,
         foundFrom |-> foundFrom, potentialSideEffect |-> potentialSideEffect]
  IN IF IsWs(char)
       THEN Go(i + 1, braceLevel, foundFrom, potentialSideEffect)
     ELSE IF char = "/" /\ At(content, i + 1) = "/"
       THEN Go(SkipLine(content, i), braceLevel, foundFrom, potentialSideEffect)
     ELSE IF char = "/" /\ At(content, i + 1) = "*"
       THEN Go(SkipBlock(content, i + 2) + 2, braceLevel, foundFrom, potentialSideEffect)
     ELSE IF char = "{"
       THEN Go(i + 1, braceLevel + 1, foundFrom, FALSE)
     ELSE IF char = "}"
       THEN Go(i + 1, braceLevel - 1, foundFrom, potentialSideEffect)
     ELSE IF braceLevel = 0 /\ Substring(content, i, i + 4) = kwFrom
             /\ At(content, i - 1) # Undef /\ IsWs(At(content, i - 1))
             /\ At(content, i + 4) # Undef /\ IsWs(At(content, i + 4))
       THEN Go(i + 4, braceLevel, TRUE, FALSE)
     ELSE IF char = "*"
       THEN Go(i + 1, braceLevel, foundFrom, FALSE)
     ELSE IF char = "'" \/ char = "\""
       THEN CHOOSE out \in
              { Leave(r.i, r.match) :
                  r \in {CaptureSpecifier(content, i, foundFrom, potentialSideEffect)} } :
              TRUE
     ELSE IF char = ";" \/ char = "\n"
       THEN Leave(i, <<>>)
     ELSE Go(i + 1, braceLevel, foundFrom, potentialSideEffect /\ ~IsWord(char))

\* the inner loop: scan forward from the keyword to the specifier, a ';' or
\* the end, over (i, braceLevel, foundFrom, potentialSideEffect)
InnerLoop(content, from) ==
  LET loop[i \in Nat, braceLevel \in Int, foundFrom \in BOOLEAN,
           potentialSideEffect \in BOOLEAN] ==
        IF ~(i < Len(content)) THEN [i |-> i, match |-> <<>>]
        ELSE CHOOSE out \in
               { IF r.left THEN [i |-> r.i, match |-> r.match]
                 ELSE loop[r.i, r.braceLevel, r.foundFrom, r.potentialSideEffect] :
                   r \in {InnerStep(content, i, braceLevel, foundFrom,
                                    potentialSideEffect)} } : TRUE
  IN loop[from, 0, FALSE, TRUE]

\* a statement scan after which the outer loop goes on from the keyword
ScanStatementRewinding(content, afterKeyword) ==
  LET i1 == SkipWs(content, afterKeyword)
      i2 == IF Substring(content, i1, i1 + 4) = kwType
            THEN SkipWs(content, i1 + 4) ELSE i1
  IN CHOOSE out \in
       { [i |-> afterKeyword, match |-> r.match] : r \in {InnerLoop(content, i2)} } : TRUE

\* the statement after a validated keyword: whitespace, an optional `type`,
\* then the inner loop
ScanStatement(content, afterKeyword) ==
  LET i1 == SkipWs(content, afterKeyword)
      i2 == IF Substring(content, i1, i1 + 4) = kwType
            THEN SkipWs(content, i1 + 4) ELSE i1
  IN InnerLoop(content, i2)

\* a scan that stays at a rejected keyword
AfterRejectedSame(keywordIdx) == keywordIdx

\* i = keywordIdx + 1
AfterRejected(keywordIdx) == keywordIdx + 1

\* one iteration of the outer loop `while (i < content.length)`, entered with
\* i < content.length: the next i, the match pushed (if any), and whether the
\* loop was left by `break`
OuterStep(content, i) ==
  LET importIdx == IndexOf(content, kwImport, i)
      exportIdx == IndexOf(content, kwExport, i)
      keywordIdx == IF importIdx # -1 /\ exportIdx # -1
                      THEN (IF importIdx < exportIdx THEN importIdx ELSE exportIdx)
                    ELSE IF importIdx # -1 THEN importIdx
                    ELSE exportIdx
      keyword == IF importIdx # -1 /\ (exportIdx = -1 \/ importIdx < exportIdx)
                 THEN kwImport ELSE kwExport
  IN IF keywordIdx = -1
       THEN [i |-> i, match |-> <<>>, stop |-> TRUE]
     ELSE IF ~isRealKeyword(content, keywordIdx, keyword)
             \/ isInCommentOrString(content, keywordIdx)
       THEN [i |-> AfterRejected(keywordIdx), match |-> <<>>, stop |-> FALSE]
     ELSE CHOOSE x \in
            { [i |-> r.i, match |-> r.match, stop |-> FALSE] :
                r \in {ScanStatement(content, keywordIdx + Len(keyword))} } : TRUE

\* the outer while loop of findAllImports over (i, results)
RECURSIVE OuterLoop(_, _, _)
OuterLoop(content, i, acc) ==
  IF ~(i < Len(content)) THEN acc
  ELSE CHOOSE x \in
         { IF r.stop THEN acc ELSE OuterLoop(content, r.i, acc \o r.match) :
             r \in {OuterStep(content, i)} } : TRUE

findAllImports(content) == OuterLoop(content, 0, <<>>)

-----------------------------------------------------------------------------
(* node:path (posix) on sequences of characters, as the source calls it:   *)
(* normalize, resolve, dirname, extname, relative                           *)

\* the segments of a path between its '/' separators
RECURSIVE SplitSlash(_, _, _)
SplitSlash(p, k, cur) ==
  IF k > Len(p) THEN <<cur>>
  ELSE IF p[k] = "/" THEN <<cur>> \o SplitSlash(p, k + 1, <<>>)
  ELSE SplitSlash(p, k + 1, Append(cur, p[k]))

Segments(p) == SplitSlash(p, 1, <<>>)

DotDot == <<".", ".">>

\* normalizeString: drops '' and '.', resolves '..'; above the root '..' is
\* dropped (allowAboveRoot false) or kept (allowAboveRoot true)
RECURSIVE NormalizeSegs(_, _, _)
NormalizeSegs(segs, acc, allowAboveRoot) ==
  IF segs = <<>> THEN acc
  ELSE LET seg == Head(segs)
           rest == Tail(segs)
       IN IF seg = <<>> \/ seg = <<".">>
            THEN NormalizeSegs(rest, acc, allowAboveRoot)
          ELSE IF seg = DotDot
            THEN IF acc # <<>> /\ acc[Len(acc)] # DotDot
                   THEN NormalizeSegs(rest, SubSeq(acc, 1, Len(acc) - 1), allowAboveRoot)
                 ELSE IF allowAboveRoot
                   THEN NormalizeSegs(rest, Append(acc, seg), allowAboveRoot)
                 ELSE NormalizeSegs(rest, acc, allowAboveRoot)
          ELSE NormalizeSegs(rest, Append(acc, seg), allowAboveRoot)

RECURSIVE JoinSlash(_)
JoinSlash(segs) ==
  IF segs = <<>> THEN <<>>
  ELSE IF Len(segs) = 1 THEN segs[1]
  ELSE segs[1] \o <<"/">> \o JoinSlash(Tail(segs))

IsAbsolute(p) == Len(p) > 0 /\ p[1] = "/"

\* path.normalize
PathNormalize(p) ==
  IF p = <<>> THEN <<".">>
  ELSE LET abs == IsAbsolute(p)
           trailingSep == p[Len(p)] = "/"
           body == JoinSlash(NormalizeSegs(Segments(p), <<>>, ~abs))
       IN IF body = <<>>
            THEN (IF abs THEN <<"/">> ELSE IF trailingSep THEN <<".", "/">> ELSE <<".">>)
          ELSE (IF abs THEN <<"/">> ELSE <<>>) \o body
               \o (IF trailingSep THEN <<"/">> ELSE <<>>)

\* path.resolve(from, to) with an absolute `from`
PathResolve(from, to) ==
  LET joined == IF IsAbsolute(to) THEN to ELSE from \o <<"/">> \o to
  IN <<"/">> \o JoinSlash(NormalizeSegs(Segments(joined), <<>>, FALSE))

\* path.dirname of an absolute path
PathDirname(p) ==
  LET q == IF Len(p) > 1 /\ p[Len(p)] = "/" THEN SubSeq(p, 1, Len(p) - 1) ELSE p
      lastSlash == LastIndexOf(q, <<"/">>)
  IN IF lastSlash = -1 THEN <<".">>
     ELSE IF lastSlash = 0 THEN <<"/">>
     ELSE SubSeq(q, 1, lastSlash)

\* path.extname: from the last '.' of the base name, unless the base name
\* starts with that '.' (or is '..')
PathExtname(p) ==
  LET lastSlash == LastIndexOf(p, <<"/">>)
      base == SliceFrom(p, lastSlash + 1)
      dot == LastIndexOf(base, <<".">>)
  IN IF dot <= 0 \/ base = DotDot THEN <<>> ELSE SliceFrom(base, dot)

\* the common prefix length of two segment lists
RECURSIVE CommonPrefix(_, _)
CommonPrefix(a, b) ==
  IF a # <<>> /\ b # <<>> /\ Head(a) = Head(b)
  THEN 1 + CommonPrefix(Tail(a), Tail(b)) ELSE 0

\* path.relative(from, to) of two absolute paths
PathRelative(from, to) ==
  LET f == NormalizeSegs(Segments(from), <<>>, FALSE)
      t == NormalizeSegs(Segments(to), <<>>, FALSE)
      c == CommonPrefix(f, t)
  IN JoinSlash([k \in 1 .. (Len(f) - c) |-> DotDot] \o SubSeq(t, c + 1, Len(t)))

\* str.replace(/\.[^/]+$/, ''): cut at the first '.' after the last '/' that
\* still has a character after it
StripExt(p) ==
  LET lastSlash == LastIndexOf(p, <<"/">>)
      S == {k \in (lastSlash + 1) .. (Len(p) - 2) : At(p, k) = "."}
  IN IF S = {} THEN p ELSE Substring(p, 0, MinOf(S))

\* /\.[^/]+$/.test(str)
HasExt(p) == StripExt(p) # p

-----------------------------------------------------------------------------
(* TextDocument (vscode-languageserver-textdocument) over a text: positions *)
(* are [line, character] records, offsets are 0-based indexes.              *)

\* the offsets at which the lines of the text start
LineOffsets(t) == {0} \cup {k + 1 : k \in {j \in 0 .. (Len(t) - 1) : At(t, j) = "\n"}}

\* the start offset of line n (lines are numbered from 0)
LineStart(t, n) ==
  CHOOSE o \in LineOffsets(t) : Cardinality({x \in LineOffsets(t) : x < o}) = n

\* document.positionAt(offset)
PositionAt(t, offset) ==
  LET off == Clamp(offset, Len(t))
      lineOffset == MaxOf({o \in LineOffsets(t) : o <= off})
  IN [line |-> Cardinality({x \in LineOffsets(t) : x < lineOffset}),
      character |-> off - lineOffset]

\* document.offsetAt(position): a character past the end of its line stops
\* before the line's end-of-line character
OffsetAt(t, pos) ==
  LET lineCount == Cardinality(LineOffsets(t))
  IN IF pos.line >= lineCount THEN Len(t)
     ELSE IF pos.line < 0 THEN 0
     ELSE LET lineOffset == LineStart(t, pos.line)
              nextLineOffset == IF pos.line + 1 < lineCount
                                THEN LineStart(t, pos.line + 1) ELSE Len(t)
              off == IF pos.character <= 0 THEN lineOffset
                     ELSE MinOf({lineOffset + pos.character, nextLineOffset})
          IN IF off > lineOffset /\ At(t, off - 1) = "\n" THEN off - 1 ELSE off

\* document.getText(range)
GetText(t, range) ==
  Substring(t, OffsetAt(t, range.start), OffsetAt(t, range.end))

-----------------------------------------------------------------------------
(* civet-parser: ensureLeadingDotSlash, withOrWithoutExtension              *)

ensureLeadingDotSlash(spec) ==
  IF StartsWith(spec, <<".", "/">>) \/ StartsWith(spec, <<".", ".", "/">>)
     \/ StartsWith(spec, <<"/">>)
  THEN spec ELSE <<".", "/">> \o spec

withOrWithoutExtension(basePath, keepExtensionFrom) ==
  IF HasExt(keepExtensionFrom) THEN basePath ELSE StripExt(basePath)

-----------------------------------------------------------------------------
(* The scanner run: a content is assembled from tokens, then findAllImports *)
(* runs over it one outer-loop iteration at a time.                          *)

MaxTokens == 4

ScanTokens ==
  { kwImport, kwExport, <<" ">>, <<"\n">>, <<";">>, <<"'">>, <<"\"">>, <<"\\">>,
    <<"a">>, <<"{">>, <<"}">>, <<" ", "f", "r", "o", "m", " ">>,
    <<"'", ".", "/", "a", "'">>, <<"/">>, <<"*">>, <<Backtick>> }

ScanInit ==
  /\ text = <<>>
  /\ ntok = 0
  /\ phase = "build"
  /\ si = 0
  /\ results = <<>>

AppendToken ==
  /\ phase = "build"
  /\ ntok < MaxTokens
  /\ \E t \in ScanTokens : text' = text \o t
  /\ ntok' = ntok + 1
  /\ UNCHANGED <<phase, si, results>>
  /\ UNCHANGED nonScanVars

StartScan ==
  /\ phase = "build"
  /\ phase' = "scan"
  /\ si' = 0
  /\ results' = <<>>
  /\ UNCHANGED <<text, ntok>>
  /\ UNCHANGED nonScanVars

ScanStep ==
  /\ phase = "scan"
  /\ si < Len(text)
  /\ \E r \in {OuterStep(text, si)} :
       /\ si' = r.i
       /\ results' = results \o r.match
       /\ phase' = IF r.stop THEN "done" ELSE "scan"
  /\ UNCHANGED <<text, ntok>>
  /\ UNCHANGED nonScanVars

ScanReturn ==
  /\ phase = "scan"
  /\ ~(si < Len(text))
  /\ phase' = "done"
  /\ UNCHANGED <<text, ntok, si, results>>
  /\ UNCHANGED nonScanVars

ScanNext == AppendToken \/ StartScan \/ ScanStep \/ ScanReturn

(* C8: for every match m of findAllImports, 0 <= m.offset and              *)
(* m.offset + m.length <= length of the text, the slice                     *)
(* text[m.offset, m.offset + m.length) begins and ends with the same quote  *)
(* character, and the characters between the quotes equal m.spec.           *)
ResliceOk(content, m) ==
  LET slice == Substring(content, m.offset, m.offset + m.length)
  IN /\ 0 <= m.offset
     /\ m.offset + m.length <= Len(content)
     /\ Len(slice) >= 2
     /\ slice[1] \in {"'", "\""}
     /\ slice[Len(slice)] = slice[1]
     /\ SubSeq(slice, 2, Len(slice) - 1) = m.spec

C8_ResliceInvariant ==
  \A k \in 1 .. Len(results) : ResliceOk(text, results[k])

-----------------------------------------------------------------------------
(* dependency-graph: DependencyGraph                                        *)

EmptyNode == [imports |-> {}, importedBy |-> {}]

EmptyGraph == [q \in {} |-> EmptyNode]

\* this.graph.set(p, node)
GraphSet(g, p, node) == [q \in DOMAIN g \cup {p} |-> IF q = p THEN node ELSE g[q]]

\* this.graph.delete(p)
GraphDelete(g, p) == [q \in DOMAIN g \ {p} |-> g[q]]

\* if (!this.graph.has(p)) this.graph.set(p, { imports: new Set(), importedBy: new Set() })
EnsureNode(g, p) == IF p \in DOMAIN g THEN g ELSE GraphSet(g, p, EmptyNode)

dotCivet == <<".", "c", "i", "v", "e", "t">>

IsRelativeSpec(specRaw) ==
  StartsWith(specRaw, <<".", "/">>) \/ StartsWith(specRaw, <<".", ".", "/">>)

\* the loop over importMatches in addOrUpdateFile: the set newImports
ResolveImports(fileDir, content) ==
  LET Final(dir, specRaw) ==
        CHOOSE out \in
          { PathNormalize(withExt) :
              withExt \in { IF PathExtname(resolvedPath) = <<>>
                            THEN resolvedPath \o dotCivet ELSE resolvedPath :
                              resolvedPath \in {PathResolve(dir, specRaw)} } } : TRUE
  IN UNION { { Final(dir, specRaw) :
                 specRaw \in { sp \in { stripQuotes(importMatches[j].spec) :
                                          j \in 1 .. Len(importMatches) } :
                                 IsRelativeSpec(sp) } } :
             <<dir, importMatches>> \in { <<fileDir, findAllImports(content)>> } }

\* the edge updates with every old import treated as removed
UpdateEdgesNoFilter(g, normalizedPath, newImports) ==
  LET oldImports == IF normalizedPath \in DOMAIN g
                    THEN g[normalizedPath].imports ELSE {}
      g0 == EnsureNode(g, normalizedPath)
      g1 == [g0 EXCEPT ![normalizedPath].imports = newImports]
      addedImports == newImports \ oldImports
      g2 == [q \in DOMAIN g1 |->
               IF q \in oldImports
               THEN [g1[q] EXCEPT !.importedBy = @ \ {normalizedPath}]
               ELSE g1[q]]
  IN [q \in DOMAIN g2 \cup addedImports |->
        LET node == IF q \in DOMAIN g2 THEN g2[q] ELSE EmptyNode
        IN IF q \in addedImports
           THEN [node EXCEPT !.importedBy = @ \cup {normalizedPath}]
           ELSE node]

\* the edge updates of addOrUpdateFile once normalizedPath and newImports
\* are computed
UpdateEdges(g, normalizedPath, newImports) ==
  LET oldImports == IF normalizedPath \in DOMAIN g
                    THEN g[normalizedPath].imports ELSE {}
      g0 == EnsureNode(g, normalizedPath)
      g1 == [g0 EXCEPT ![normalizedPath].imports = newImports]
      removedImports == oldImports \ newImports
      addedImports == newImports \ oldImports
      \* this.graph.get(importPath)?.importedBy.delete(normalizedPath)
      g2 == [q \in DOMAIN g1 |->
               IF q \in removedImports
               THEN [g1[q] EXCEPT !.importedBy = @ \ {normalizedPath}]
               ELSE g1[q]]
      \* create the target on demand, then importedBy.add(normalizedPath)
      g3 == [q \in DOMAIN g2 \cup addedImports |->
               LET node == IF q \in DOMAIN g2 THEN g2[q] ELSE EmptyNode
               IN IF q \in addedImports
                  THEN [node EXCEPT !.importedBy = @ \cup {normalizedPath}]
                  ELSE node]
  IN g3

addOrUpdateFile(g, filePath, content) ==
  CHOOSE out \in
    { UpdateEdges(g, normalizedPath, newImports) :
        <<normalizedPath, newImports>> \in
          { <<np, ResolveImports(PathDirname(np), content)>> :
              np \in {PathNormalize(filePath)} } } : TRUE

\* removeFile once normalizedPath is computed
RemoveNode(g, normalizedPath) ==
     IF normalizedPath \notin DOMAIN g THEN g
     ELSE LET imps == g[normalizedPath].imports
              g1 == [q \in DOMAIN g |->
                       IF q \in imps
                       THEN [g[q] EXCEPT !.importedBy = @ \ {normalizedPath}]
                       ELSE g[q]]
              deps == g1[normalizedPath].importedBy
              g2 == [q \in DOMAIN g1 |->
                       IF q \in deps
                       THEN [g1[q] EXCEPT !.imports = @ \ {normalizedPath}]
                       ELSE g1[q]]
          IN GraphDelete(g2, normalizedPath)

removeFile(g, filePath) ==
  CHOOSE out \in
    { RemoveNode(g, normalizedPath) :
        normalizedPath \in {PathNormalize(filePath)} } : TRUE

\* renameFile once oldNormalized and newNormalized are computed
MoveNode(g, oldNormalized, newNormalized) ==
     IF oldNormalized \notin DOMAIN g THEN g
     ELSE LET \* 1. the node at the new path, created if it does not exist
              g1 == EnsureNode(g, newNormalized)
              \* 2. merge the old node's sets into the new node's
              g2 == [g1 EXCEPT
                       ![newNormalized].imports = @ \cup g1[oldNormalized].imports,
                       ![newNormalized].importedBy = @ \cup g1[oldNormalized].importedBy]
              \* 3. every dependent of the new node imports new instead of old
              deps == g2[newNormalized].importedBy
              g3 == [q \in DOMAIN g2 |->
                       IF q \in deps
                       THEN [g2[q] EXCEPT
                               !.imports = (@ \ {oldNormalized}) \cup {newNormalized}]
                       ELSE g2[q]]
              \* 4. every import of the new node is imported by new instead of old
              imps == g3[newNormalized].imports
              g4 == [q \in DOMAIN g3 |->
                       IF q \in imps
                       THEN [g3[q] EXCEPT
                               !.importedBy = (@ \ {oldNormalized}) \cup {newNormalized}]
                       ELSE g3[q]]
              \* 5. delete the old node
          IN GraphDelete(g4, oldNormalized)

renameFile(g, oldPath, newPath) ==
  CHOOSE out \in
    { MoveNode(g, oldNormalized, newNormalized) :
        oldNormalized \in {PathNormalize(oldPath)},
        newNormalized \in {PathNormalize(newPath)} } : TRUE

getDependentsOf(g, filePath) ==
  LET normalizedPath == PathNormalize(filePath)
  IN IF normalizedPath \in DOMAIN g THEN g[normalizedPath].importedBy ELSE {}

\* a query that creates the node it asks for
GetDependentsCreating(g, filePath) ==
  [graph |-> EnsureNode(g, PathNormalize(filePath)),
   list |-> getDependentsOf(g, filePath),
   shared |-> FALSE]

\* one call of getDependentsOf: the graph after it, the returned array, and
\* whether that array is the node's own importedBy set (it is a copy:
\* `new Set`, then Array.from)
GetDependentsCall(g, filePath) ==
  [graph |-> g, list |-> getDependentsOf(g, filePath), shared |-> FALSE]

\* the caller writes to the array a query returned
MutateReturned(g, filePath, returned, newList) ==
  IF returned.shared /\ PathNormalize(filePath) \in DOMAIN g
  THEN [g EXCEPT ![PathNormalize(filePath)].importedBy = newList]
  ELSE g

-----------------------------------------------------------------------------
(* rename feature: the file-move rename builder                              *)

\* the members of a finite set of integers in ascending order
RECURSIVE Ascending(_)
Ascending(S) ==
  IF S = {} THEN <<>>
  ELSE CHOOSE q \in { <<x>> \o Ascending(S \ {x}) : x \in {MinOf(S)} } : TRUE

\* the members of a finite set in some fixed order (the iteration order of a
\* JavaScript Set or object, which the model's sets do not keep)
RECURSIVE SetToSeq(_)
SetToSeq(S) ==
  IF S = {} THEN <<>>
  ELSE CHOOSE q \in { <<x>> \o SetToSeq(S \ {x}) : x \in {CHOOSE y \in S : TRUE} } : TRUE

RECURSIVE Flatten(_)
Flatten(ss) == IF ss = <<>> THEN <<>> ELSE Head(ss) \o Flatten(Tail(ss))

\* a read that finds an import of ./b in every file it cannot read
ReadContentMadeUp(openDocs, files, sourcePath) ==
  IF sourcePath \in DOMAIN openDocs THEN openDocs[sourcePath]
  ELSE IF sourcePath \in DOMAIN files THEN files[sourcePath]
  ELSE kwImport \o <<" ", "'", ".", "/", "b", "'">>

\* the text of a candidate file: the open document's, else the file's on
\* disk; an unreadable file gives undefined, which `if (!content)` treats as
\* it treats the empty text
ReadContent(openDocs, files, sourcePath) ==
  IF sourcePath \in DOMAIN openDocs THEN openDocs[sourcePath]
  ELSE IF sourcePath \in DOMAIN files THEN files[sourcePath]
  ELSE <<>>

buildCivetImportEdit(content, match, newSpec) ==
  LET start == PositionAt(content, match.offset)
      end == PositionAt(content, match.offset + match.length)
      originalSpec == GetText(content, [start |-> start, end |-> end])
      quoted == StartsWith(originalSpec, <<"\"">>) \/ StartsWith(originalSpec, <<"'">>)
  IN [range |-> [start |-> start, end |-> end],
      newText |-> IF quoted
                  THEN <<originalSpec[1]>> \o stripQuotes(newSpec) \o <<originalSpec[1]>>
                  ELSE stripQuotes(newSpec)]

\* the test of buildManualCivetWorkspaceEdits on one import match: a
\* specifier that starts with ./, ../ or / and resolves to oldPath, or to
\* oldPath once /\.[^/]+$/ is cut from both
SpecifierHits(oldPath, dir, match) ==
  LET specRaw == stripQuotes(match.spec)
  IN /\ \/ StartsWith(specRaw, <<".", "/">>)
        \/ StartsWith(specRaw, <<".", ".", "/">>)
        \/ StartsWith(specRaw, <<"/">>)
     /\ \E specAbs \in {PathResolve(dir, specRaw)} :
          specAbs = oldPath \/ StripExt(specAbs) = StripExt(oldPath)

\* the replacement specifier for a match
NewSpecifier(newPath, dir, match) ==
  ensureLeadingDotSlash(
    withOrWithoutExtension(PathRelative(dir, newPath), stripQuotes(match.spec)))

\* the loop over the imports of one candidate file: its edits, in match order
FileImportEdits(oldPath, newPath, sourcePath, content) ==
  CHOOSE out \in
    { [n \in 1 .. Len(hits) |->
         buildCivetImportEdit(content, imports[hits[n]],
                              NewSpecifier(newPath, dir, imports[hits[n]]))] :
        <<dir, imports, hits>> \in
          { <<d, im, Ascending({k \in 1 .. Len(im) : SpecifierHits(oldPath, d, im[k])})>> :
              d \in {PathDirname(sourcePath)}, im \in {findAllImports(content)} } } : TRUE

OpenVersion == "open"
NullVersion == "null"

\* documentChanges of one {oldPath, newPath} pair: one entry for each
\* candidate file that is readable, non-empty and has an edit
buildManualCivetWorkspaceEdits(oldPath, newPath, openDocs, files, candidateFiles) ==
  LET Entry(sourcePath) ==
        CHOOSE out \in
          { IF edits = <<>> THEN <<>>
            ELSE << [uri |-> sourcePath,
                     version |-> IF sourcePath \in DOMAIN openDocs
                                 THEN OpenVersion ELSE NullVersion,
                     edits |-> edits] >> :
              edits \in { IF ReadContent(openDocs, files, sourcePath) = <<>> THEN <<>>
                          ELSE FileImportEdits(oldPath, newPath, sourcePath,
                                               ReadContent(openDocs, files, sourcePath)) } } : TRUE
  IN Flatten([n \in 1 .. Len(candidateFiles) |-> Entry(candidateFiles[n])])

\* allCandidateFiles: over the whole batch, every dependent of an oldPath
\* and the oldPath itself
CandidateFiles(renames, g) ==
  UNION { getDependentsOf(g, renames[k].oldPath) \cup {renames[k].oldPath} :
            k \in 1 .. Len(renames) }

\* what the collaborators do for one {oldUri, newUri} pair:
\* ensureServiceForSourcePath resolves to a service, resolves to nothing or
\* rejects, or documentToSourcePath throws on the pair's URI
PairOutcomes == {"service", "noService", "serviceRejects", "uriThrows"}

\* the per-pair loop of computeRenameEdits over a computed candidate set:
\* a pair without a service is skipped (`continue`)
RenameDocumentChanges(renames, candidateFiles, openDocs, files) ==
  Flatten([k \in 1 .. Len(renames) |->
             IF renames[k].outcome = "service"
             THEN buildManualCivetWorkspaceEdits(renames[k].oldPath, renames[k].newPath,
                                                 openDocs, files, candidateFiles)
             ELSE <<>>])

\* an exception or rejection leaves computeRenameEdits: it has no guard
\* around documentToSourcePath or the await of ensureServiceForSourcePath
RenameThrows(renames) ==
  \E k \in 1 .. Len(renames) : renames[k].outcome \in {"serviceRejects", "uriThrows"}

\* stageOldFileContent: the old file goes to the engine's host from its
\* open document, else from disk; a failed read is logged
stageOldFileContent(oldPath, openDocs, files) ==
  IF oldPath \in DOMAIN openDocs \/ oldPath \in DOMAIN files THEN {oldPath} ELSE {}

\* the files buildManualCivetWorkspaceEdits registers with the host: those
\* with an edit and without an open document
RegisteredByBuilder(documentChanges) ==
  { documentChanges[n].uri :
      n \in { m \in DOMAIN documentChanges : documentChanges[m].version = NullVersion } }

\* the files a call of computeRenameEdits puts into the engine's host, pair
\* after pair until a pair throws
RenameStaged(renames, candidateFiles, openDocs, files) ==
  LET reached == { k \in DOMAIN renames :
                     \A j \in 1 .. k :
                       renames[j].outcome \notin {"serviceRejects", "uriThrows"} }
  IN UNION { IF renames[k].outcome = "service"
             THEN stageOldFileContent(renames[k].oldPath, openDocs, files)
                    \cup RegisteredByBuilder(
                           buildManualCivetWorkspaceEdits(renames[k].oldPath,
                                                          renames[k].newPath,
                                                          openDocs, files, candidateFiles))
             ELSE {} : k \in reached }

Threw == [edits |-> <<>>, filesToRefresh |-> {}, staged |-> {}, threw |-> TRUE]

computeRenameEdits(renames, g, openDocs, files) ==
  IF RenameThrows(renames)
  THEN [Threw EXCEPT !.staged = RenameStaged(renames, SetToSeq(CandidateFiles(renames, g)),
                                             openDocs, files)]
  ELSE CHOOSE out \in
    { [edits |-> documentChanges,
       filesToRefresh |-> {documentChanges[n].uri : n \in 1 .. Len(documentChanges)},
       staged |-> RenameStaged(renames, SetToSeq(CandidateFiles(renames, g)),
                               openDocs, files),
       threw |-> FALSE] :
        documentChanges \in
          { RenameDocumentChanges(renames, SetToSeq(CandidateFiles(renames, g)),
                                  openDocs, files) } } : TRUE

-----------------------------------------------------------------------------
(* rename feature: the symbol rename resolver (handleRename)                *)

\* /[\p{L}\p{Nl}\p{Mn}\p{Mc}\p{Nd}\p{Pc}_$]/u over the characters of the model
IdentifierChars == Letters \cup Digits \cup {"_", "$"}

\* String.prototype.lastIndexOf(pat, from)
LastIndexOfFrom(t, pat, from) ==
  LET S == {k \in 0 .. MinOf({from, Len(t) - Len(pat)}) :
              SubSeq(t, k + 1, k + Len(pat)) = pat}
  IN IF S = {} THEN -1 ELSE MaxOf(S)

\* String.prototype.trimStart and trim
TrimStart(t) ==
  LET S == {k \in 0 .. Len(t) : \A j \in 0 .. (k - 1) : IsWs(At(t, j))}
  IN SliceFrom(t, MaxOf(S))

TrimEnd(t) ==
  LET S == {k \in 0 .. Len(t) : \A j \in k .. (Len(t) - 1) : IsWs(At(t, j))}
  IN Substring(t, 0, MinOf(S))

Trim(t) == TrimEnd(TrimStart(t))

\* an absent prefixText or suffixText (typeof is not 'string')
NoText == <<"undefined">>

\* meta?.sourcemapLines: a transpiled (Civet) file has a sourcemap
HasSourcemap(fileName) == EndsWith(fileName, dotCivet)

\* advance past any leading whitespace
SkipLeadingWhitespace(originalDocText, originalStartOffset) ==
  LET loop[tokenStartOffset \in Nat] ==
        IF tokenStartOffset < Len(originalDocText)
           /\ IsWs(At(originalDocText, tokenStartOffset))
        THEN loop[tokenStartOffset + 1] ELSE tokenStartOffset
  IN loop[originalStartOffset]

\* scan forward over identifier characters
ScanIdentifier(originalDocText, tokenStartOffset) ==
  LET loop[tokenEndOffset \in Nat] ==
        IF tokenEndOffset < Len(originalDocText)
           /\ At(originalDocText, tokenEndOffset) \in IdentifierChars
        THEN loop[tokenEndOffset + 1] ELSE tokenEndOffset
  IN loop[tokenStartOffset]

\* a range that ends where the engine's span length says
LocationRangeFromSpan(docText, loc) ==
  [skip |-> FALSE,
   start |-> PositionAt(docText, OffsetAt(docText, loc.mappedStart)),
   end |-> PositionAt(docText, OffsetAt(docText, loc.mappedStart) + loc.length)]

\* the range of the edit for one location: the engine's span, or for a file
\* with a sourcemap the token found in the original text from the remapped
\* start; skip when no token character is found
LocationRange(docText, loc) ==
  IF HasSourcemap(loc.fileName)
  THEN CHOOSE out \in
         { [skip |-> tokenStartOffset = tokenEndOffset,
            start |-> PositionAt(docText, tokenStartOffset),
            end |-> PositionAt(docText, tokenEndOffset)] :
             <<tokenStartOffset, tokenEndOffset>> \in
               { <<ts, ScanIdentifier(docText, ts)>> :
                   ts \in {SkipLeadingWhitespace(docText,
                                                 OffsetAt(docText, loc.mappedStart))} } } : TRUE
  ELSE [skip |-> FALSE,
        start |-> PositionAt(docText, loc.spanStart),
        end |-> PositionAt(docText, loc.spanStart + loc.length)]

asSpace == <<"a", "s", " ">>

\* a policy that never drops the alias clause
ReplacementTextKeepingAlias(docText, range, loc, modulePath, newName) ==
  [newText |-> (IF loc.prefixText # NoText THEN loc.prefixText ELSE <<>>)
                 \o newName
                 \o (IF loc.suffixText # NoText THEN loc.suffixText ELSE <<>>),
   alias |-> <<>>]

\* the replacement text of one location, and the alias change it queues
ReplacementText(docText, range, loc, modulePath, newName) ==
  LET hasPrefix == loc.prefixText # NoText
      hasSuffix == loc.suffixText # NoText
      prefixText == IF hasPrefix THEN loc.prefixText ELSE <<>>
      suffixText == IF hasSuffix THEN loc.suffixText ELSE <<>>
      originalText == GetText(docText, range)
      suffixTrim == TrimStart(suffixText)
  IN IF hasSuffix /\ StartsWith(suffixTrim, asSpace)
        /\ Trim(SliceFrom(suffixTrim, 3)) = originalText
     THEN [newText |-> prefixText \o newName,
           alias |-> << [modulePath |-> modulePath, oldName |-> originalText,
                         newName |-> newName] >>]
     ELSE IF hasPrefix \/ hasSuffix
       THEN [newText |-> prefixText \o newName \o suffixText, alias |-> <<>>]
     ELSE [newText |-> newName, alias |-> <<>>]

\* a lookup that never misses
HasDocumentAlways(openDocs, uri) == TRUE

\* documents.get(uri) is defined
HasDocument(openDocs, uri) == uri \in DOMAIN openDocs

\* doc.getText()
DocText(openDocs, uri) == IF uri \in DOMAIN openDocs THEN openDocs[uri] ELSE <<>>

\* \b of a regular expression at index i of t
WordBoundary(t, i) == IsWord(At(t, i - 1)) # IsWord(At(t, i))

\* applyAliasPropagation for one document and one alias change: the edits
\* inside the brace clause of each `from` import of the module
AliasEditsIn(content, docDir, change) ==
  LET PerMatch(match) ==
        IF match.type # "from" THEN <<>>
        ELSE CHOOSE out \in
          { IF specAbs # change.modulePath
               /\ StripExt(specAbs) # StripExt(change.modulePath) THEN <<>>
            ELSE IF braceStart = -1 \/ braceEnd = -1 \/ braceEnd <= braceStart THEN <<>>
            ELSE LET braceSection == Substring(content, braceStart, braceEnd)
                     n == Len(change.oldName)
                     hits == Ascending(
                       {i \in 0 .. (Len(braceSection) - n) :
                          /\ Substring(braceSection, i, i + n) = change.oldName
                          /\ WordBoundary(braceSection, i)
                          /\ WordBoundary(braceSection, i + n)
                          /\ Substring(content, braceStart + i, braceStart + i + n)
                               # change.newName})
                 IN [h \in 1 .. Len(hits) |->
                       [range |-> [start |-> PositionAt(content, braceStart + hits[h]),
                                   end |-> PositionAt(content, braceStart + hits[h] + n)],
                        newText |-> change.newName,
                        origin |-> 0]] :
              <<specAbs, braceStart, braceEnd>> \in
                { <<sa, bs, IndexOf(content, <<"}">>, bs)>> :
                    sa \in {PathResolve(docDir, stripQuotes(match.spec))},
                    bs \in {LastIndexOfFrom(content, <<"{">>, match.offset)} } } : TRUE
  IN CHOOSE out \in
       { Flatten([j \in 1 .. Len(matches) |-> PerMatch(matches[j])]) :
           matches \in {findAllImports(content)} } : TRUE

\* applyAliasPropagation: the edits added to each document of the program
\* (open documents, and closed Civet files read from disk)
applyAliasPropagation(aliases, openDocs, files, changes) ==
  IF aliases = <<>> THEN changes
  ELSE LET entries == DOMAIN openDocs \cup {f \in DOMAIN files : EndsWith(f, dotCivet)}
           Added(sourcePath) ==
             Flatten([a \in 1 .. Len(aliases) |->
                        AliasEditsIn(ReadContent(openDocs, files, sourcePath),
                                     PathDirname(sourcePath), aliases[a])])
           touched == {f \in entries : Added(f) # <<>>}
       IN [uri \in DOMAIN changes \cup touched |->
             (IF uri \in DOMAIN changes THEN changes[uri] ELSE <<>>)
               \o (IF uri \in touched THEN Added(uri) ELSE <<>>)]

-----------------------------------------------------------------------------
(* The graph under arbitrary sequences of its public operations, starting   *)
(* from the empty graph.                                                     *)

pathA == <<"/", "a", ".", "c", "i", "v", "e", "t">>
pathB == <<"/", "b", ".", "c", "i", "v", "e", "t">>
pathC == <<"/", "c", ".", "c", "i", "v", "e", "t">>

Paths == {pathA, pathB, pathC}

\* the paths the operations are called with: the normalized ones and one
\* spelling of /a.civet that path.normalize has to clean up
InputPaths == Paths \cup {<<"/", ".", "/", "a", ".", "c", "i", "v", "e", "t">>}

\* import './a'
srcImportA == kwImport \o <<" ", "'", ".", "/", "a", "'">>
\* import {x} from "./b.civet"
srcImportB == kwImport \o <<" ", "{", "x", "}", " ">> \o kwFrom
              \o <<" ", "\"", ".", "/", "b", ".", "c", "i", "v", "e", "t", "\"">>
\* export * from '../c'
srcExportC == kwExport \o <<" ", "*", " ">> \o kwFrom
              \o <<" ", "'", ".", ".", "/", "c", "'">>
\* import 'pkg'
srcImportPkg == kwImport \o <<" ", "'", "p", "k", "g", "'">>

FileContents ==
  { <<>>, srcImportA, srcExportC,
    srcImportPkg \o <<";">> \o srcImportB \o <<"\n">> \o srcExportC }

\* the number of operations in a sequence
MaxOps == 4

GraphInit ==
  /\ graph = EmptyGraph
  /\ lastOp = [op |-> "init", a |-> <<>>, b |-> <<>>]
  /\ pre = EmptyGraph
  /\ nops = 0

DoAddOrUpdateFile ==
  /\ nops < MaxOps
  /\ nops' = nops + 1
  /\ \E p \in InputPaths, c \in FileContents :
       /\ graph' = addOrUpdateFile(graph, p, c)
       /\ lastOp' = [op |-> "addOrUpdateFile", a |-> p, b |-> c]
  /\ pre' = graph
  /\ UNCHANGED nonGraphVars

DoRemoveFile ==
  /\ nops < MaxOps
  /\ nops' = nops + 1
  /\ \E p \in InputPaths :
       /\ graph' = removeFile(graph, p)
       /\ lastOp' = [op |-> "removeFile", a |-> p, b |-> <<>>]
  /\ pre' = graph
  /\ UNCHANGED nonGraphVars

DoRenameFile ==
  /\ nops < MaxOps
  /\ nops' = nops + 1
  /\ \E o \in InputPaths, n \in InputPaths :
       /\ graph' = renameFile(graph, o, n)
       /\ lastOp' = [op |-> "renameFile", a |-> o, b |-> n]
  /\ pre' = graph
  /\ UNCHANGED nonGraphVars

DoGetDependentsOf ==
  /\ nops < MaxOps
  /\ nops' = nops + 1
  /\ \E p \in InputPaths :
       \E call \in {GetDependentsCall(graph, p)} :
         /\ graph' = call.graph
         /\ lastOp' = [op |-> "getDependentsOf", a |-> p,
                       b |-> [list |-> call.list, shared |-> call.shared]]
  /\ pre' = graph
  /\ UNCHANGED nonGraphVars

\* the caller of getDependentsOf pushes a path to the returned array or
\* empties it
DoMutateReturned ==
  /\ lastOp.op = "getDependentsOf"
  /\ \E newList \in {{}} \cup {lastOp.b.list \cup {x} : x \in Paths} :
       /\ newList # lastOp.b.list
       /\ graph' = MutateReturned(graph, lastOp.a, lastOp.b, newList)
       /\ lastOp' = [op |-> "mutateReturned", a |-> lastOp.a,
                     b |-> [list |-> newList, shared |-> lastOp.b.shared]]
  /\ pre' = graph
  /\ UNCHANGED nops
  /\ UNCHANGED nonGraphVars

GraphNext ==
  \/ DoAddOrUpdateFile
  \/ DoRemoveFile
  \/ DoRenameFile
  \/ DoGetDependentsOf
  \/ DoMutateReturned

-----------------------------------------------------------------------------
(* The workspace: two files on disk, no document open.                      *)

\* import {x} from "./b.civet"   (the text of /a.civet on disk)
DiskInit == (pathA :> srcImportB) @@ (pathB :> <<>>)

DocInit ==
  /\ docs = [q \in {} |-> <<>>]
  /\ disk = DiskInit

\* a pass 1 that creates no node
BuildPass1Skipped(g, allFiles) == g

\* build(rootDir), pass 1: an empty node for every file found
BuildPass1(g, allFiles) ==
  [q \in DOMAIN g \cup {PathNormalize(allFiles[n]) : n \in 1 .. Len(allFiles)} |->
     IF q \in {PathNormalize(allFiles[n]) : n \in 1 .. Len(allFiles)}
     THEN EmptyNode ELSE g[q]]

\* build(rootDir), pass 2, for one file: read it and wire its edges; a file
\* that cannot be read is skipped
BuildPass2File(g, files, filePath) ==
  IF filePath \in DOMAIN files THEN addOrUpdateFile(g, filePath, files[filePath]) ELSE g

RECURSIVE BuildPass2(_, _, _)
BuildPass2(g, files, allFiles) ==
  IF allFiles = <<>> THEN g
  ELSE CHOOSE out \in
         { BuildPass2(g1, files, Tail(allFiles)) :
             g1 \in {BuildPass2File(g, files, Head(allFiles))} } : TRUE

-----------------------------------------------------------------------------
(* The file-move rename builder run: documents are opened or changed (the   *)
(* graph follows each change), the graph may be built from disk, then       *)
(* computeRenameEdits is called once with a batch of renames.               *)

pathBee == <<"/", "b", "e", "e", ".", "c", "i", "v", "e", "t">>
pathBD == <<"/", "b", ".", "d", ".", "c", "i", "v", "e", "t">>
pathDC == <<"/", "d", "/", "c", ".", "c", "i", "v", "e", "t">>
pathBTs == <<"/", "b", ".", "t", "s">>
pathBeeTs == <<"/", "b", "e", "e", ".", "t", "s">>

MoveDocPaths == {pathA, pathB, pathC}

\* import './b'
srcImportDotB == kwImport \o <<" ", "'", ".", "/", "b", "'">>
\* import "./c"
srcImportDotC == kwImport \o <<" ", "\"", ".", "/", "c", "\"">>
\* import x from './b.d.civet'
srcImportBD == kwImport \o <<" ", "x", " ">> \o kwFrom
               \o <<" ", "'", ".", "/", "b", ".", "d", ".", "c", "i", "v", "e", "t", "'">>
\* import '/b.civet'
srcImportAbsB == kwImport \o <<" ", "'", "/", "b", ".", "c", "i", "v", "e", "t", "'">>

MoveContents ==
  { srcImportDotB, srcImportDotC, srcImportB \o <<"\n">> \o srcImportBD,
    srcImportDotB \o <<";">> \o srcImportAbsB, srcImportPkg,
    srcImportDotB \o <<"\n">> \o srcImportDotC }

MoveRenames ==
  { [oldPath |-> r[1], newPath |-> r[2], outcome |-> o] :
      r \in {<<pathB, pathBee>>, <<pathC, pathDC>>}, o \in PairOutcomes }
  \cup { [oldPath |-> pathBTs, newPath |-> pathBeeTs, outcome |-> "service"] }

\* the number of renames in a batch, and of content changes before the call
MaxBatch == 2
MaxChanges == 3

MoveBatches ==
  UNION { [1 .. n -> MoveRenames] : n \in 1 .. MaxBatch }

NoResult == [edits |-> <<>>, filesToRefresh |-> {}, staged |-> {}, threw |-> FALSE]

MoveInit ==
  /\ movePhase = "edit"
  /\ moveBatch = <<>>
  /\ moveResult = NoResult
  /\ nchanges = 0

\* a document is opened or changed and the graph is updated from its text
MoveChangeContent ==
  /\ movePhase = "edit"
  /\ nchanges < MaxChanges
  /\ nchanges' = nchanges + 1
  /\ \E p \in MoveDocPaths, c \in MoveContents :
       /\ docs' = (p :> c) @@ docs
       /\ graph' = addOrUpdateFile(graph, p, c)
  /\ UNCHANGED <<disk, movePhase, moveBatch, moveResult>>
  /\ UNCHANGED nonMoveVars

\* the initial build over the files on disk
MoveBuild ==
  /\ movePhase = "edit"
  /\ nchanges < MaxChanges
  /\ nchanges' = nchanges + 1
  /\ \E allFiles \in {SetToSeq(DOMAIN disk)} :
       graph' = BuildPass2(BuildPass1(graph, allFiles), disk, allFiles)
  /\ UNCHANGED <<docs, disk, movePhase, moveBatch, moveResult>>
  /\ UNCHANGED nonMoveVars

MoveComputeRenameEdits ==
  /\ movePhase = "edit"
  /\ movePhase' = "done"
  /\ \E renames \in MoveBatches :
       /\ moveBatch' = renames
       /\ moveResult' = computeRenameEdits(renames, graph, docs, disk)
  /\ UNCHANGED <<docs, disk, graph, nchanges>>
  /\ UNCHANGED nonMoveVars

MoveNext == MoveChangeContent \/ MoveBuild \/ MoveComputeRenameEdits

-----------------------------------------------------------------------------
(* The server: the background build of the graph, content-change            *)
(* notifications and the executeQueue runs they schedule, and the           *)
(* will-rename / did-rename handlers with the rename barrier. Each action   *)
(* is one stretch of a handler between two awaits.                          *)

OrchPaths == {pathA, pathB, pathC}
OrchDocPaths == {pathA}
\* the files the client renames
OrchRenameSources == {pathB, pathC}
OrchContents == {srcImportDotB}

\* the number of content-change and of will-rename notifications
MaxEvents == 2
MaxRenames == 2

NoBarrier == 0

OrchInit ==
  /\ ready = FALSE
  /\ bpc = "scheduled"
  /\ bfiles = <<>>
  /\ bscan = [q \in {} |-> "pending"]
  /\ changeQueue = {}
  /\ executeTimeout = FALSE
  /\ documentUpdateStatus = {}
  /\ runningDiagnosticsUpdate = "undefined"
  /\ passes = <<>>
  /\ contentWaiters = {}
  /\ qpc = "idle"
  /\ qfound = NoBarrier
  /\ qdocs = {}
  /\ activeRenameBarrier = NoBarrier
  /\ created = 0
  /\ released = {}
  /\ wills = <<>>
  /\ outstanding = <<>>
  /\ dids = {}
  /\ serviceUp = "none"
  /\ resident = {}
  /\ invalidated = {}
  /\ filesToRefreshAfterRename = [defined |-> FALSE, uris |-> {}]
  /\ nevents = 0
  /\ requests = {}

\* --- the background build (onInitialized, DependencyGraph.build) ---

\* the one-second timer fires: build(rootDir) starts if there is a rootDir
BuildStart ==
  /\ bpc = "scheduled"
  /\ \E rootDir \in BOOLEAN : bpc' = IF rootDir THEN "list" ELSE "off"
  /\ UNCHANGED <<ready, bfiles, bscan, graph, docVars, queueVars, barrierVars>>
  /\ UNCHANGED engineVars
  /\ UNCHANGED requestVars
  /\ UNCHANGED nonOrchVars

\* the file listing arrives: pass 1, then the first read of pass 2 is awaited
BuildListed ==
  /\ bpc = "list"
  /\ \E allFiles \in {SetToSeq(DOMAIN disk)} :
       /\ graph' = BuildPass1(graph, allFiles)
       /\ bfiles' = allFiles
       /\ bscan' = [q \in DOMAIN disk |-> "pending"]
       /\ bpc' = IF allFiles = <<>> THEN "done" ELSE "pass2"
       /\ ready' = (allFiles = <<>>)
  /\ UNCHANGED <<docVars, queueVars, barrierVars>>
  /\ UNCHANGED engineVars
  /\ UNCHANGED requestVars
  /\ UNCHANGED nonOrchVars

\* a read of pass 2 completes; after the last one resolveInitialBuild()
BuildReadFile ==
  /\ bpc = "pass2"
  /\ graph' = BuildPass2File(graph, disk, Head(bfiles))
  /\ bfiles' = Tail(bfiles)
  /\ bscan' = IF Tail(bfiles) = <<>>
              THEN [q \in {} |-> "pending"]
              ELSE [bscan EXCEPT ![Head(bfiles)] =
                      IF Head(bfiles) \in DOMAIN disk THEN "read" ELSE "failed"]
  /\ bpc' = IF Tail(bfiles) = <<>> THEN "done" ELSE "pass2"
  /\ ready' = (Tail(bfiles) = <<>>)
  /\ UNCHANGED <<docVars, queueVars, barrierVars>>
  /\ UNCHANGED engineVars
  /\ UNCHANGED requestVars
  /\ UNCHANGED nonOrchVars

\* a file of the workspace is deleted or made unreadable while build runs:
\* the walk may have listed it, its read in pass 2 then fails
DiskUnlink ==
  /\ bpc \in {"list", "pass2"}
  /\ \E p \in DOMAIN disk : disk' = [q \in DOMAIN disk \ {p} |-> disk[q]]
  /\ UNCHANGED <<docs, graph, buildVars, queueVars, barrierVars>>
  /\ UNCHANGED engineVars
  /\ UNCHANGED requestVars
  /\ UNCHANGED nonOrchVars

\* --- content changes and the change queue ---

\* documentUpdateStatus.set(document.uri, withResolvers()): the entry of
\* the document is replaced, and with it the only reference to the
\* resolvers of the promise an earlier updating(document) returned
Replaced(r, d) ==
  IF r.doc = d /\ r.pc = "awaiting" THEN [r EXCEPT !.pc = "replaced"] ELSE r

\* documentUpdateStatus.get(doc.uri)?.resolve(true): the promise of the
\* entry the map holds now is resolved
Resolved(r, d) ==
  IF r.doc = d /\ r.pc = "awaiting" THEN [r EXCEPT !.pc = "resumed"] ELSE r

\* a scheduleExecuteQueue that never finds a batch scheduled or running
TimerNeverPending(timeout) == FALSE

\* scheduleExecuteQueue: if (executeTimeout) return
TimerPending(timeout) == timeout

\* documents.onDidChangeContent up to its await of isReady, with the
\* synchronous part of scheduleExecuteQueue
DidChangeContentOf(documents, contents) ==
  /\ nevents < MaxEvents
  /\ nevents' = nevents + 1
  /\ \E d \in documents, c \in contents :
       /\ docs' = (d :> c) @@ docs
       /\ documentUpdateStatus' = documentUpdateStatus \cup {d}
       /\ changeQueue' = changeQueue \cup {d}
       /\ contentWaiters' = contentWaiters \cup {d}
       /\ requests' = { Replaced(r, d) : r \in requests }
  /\ IF TimerPending(executeTimeout) THEN UNCHANGED <<executeTimeout, qpc>>
     ELSE executeTimeout' = TRUE /\ qpc' = "timer"
  /\ UNCHANGED <<disk, graph, runningDiagnosticsUpdate, passes, qfound, qdocs>>
  /\ UNCHANGED <<buildVars, barrierVars>>
  /\ UNCHANGED engineVars
  /\ UNCHANGED nonOrchVars

\* the editor changes the one document it has open
DidChangeContent == DidChangeContentOf(OrchDocPaths, OrchContents)

\* onDidChangeContent after isReady: the graph follows the document
ContentGraphUpdate ==
  /\ ready
  /\ \E d \in contentWaiters :
       /\ contentWaiters' = contentWaiters \ {d}
       /\ graph' = addOrUpdateFile(graph, d, docs[d])
  /\ UNCHANGED <<changeQueue, executeTimeout, documentUpdateStatus,
                 runningDiagnosticsUpdate, passes, qpc, qfound, qdocs, nevents>>
  /\ UNCHANGED <<docVars, buildVars, barrierVars>>
  /\ UNCHANGED engineVars
  /\ UNCHANGED requestVars
  /\ UNCHANGED nonOrchVars

\* an executeQueue that never waits
BarrierIgnored(barrier) == FALSE

\* if (activeRenameBarrier)
BarrierHeld(barrier) == barrier # NoBarrier

\* runningDiagnosticsUpdate.isCanceled = true: the status object the slot
\* refers to is the one of the pass started last
CancelRunning(running, started) ==
  IF running = "undefined" \/ started = <<>> THEN started
  ELSE [started EXCEPT ![Len(started)].isCanceled = TRUE]

\* ensureServiceForSourcePath: the service of the map; else a new service,
\* whose loadPlugins resolves or rejects; a rejected promise stays in
\* projectPathToPendingPromiseMap, and every later call awaits it and
\* rejects too
ServiceOutcomes(up) ==
  IF up = "up" THEN {"service"}
  ELSE IF up = "broken" THEN {"serviceRejects"}
  ELSE {"service", "serviceRejects"}

\* the state of the service after a call with this outcome
ServiceAfter(outcome) == IF outcome = "service" THEN "up" ELSE "broken"

\* the files resident in the engine once the service is there: a new
\* service loads the project's files from disk
HostFiles(up, hostFiles, files) == IF up = "up" THEN hostFiles ELSE DOMAIN files

\* a pass that goes on after its flag is set
PassNeverStops(status) == FALSE

\* if (status.isCanceled) return
PassStops(status) == status.isCanceled

\* scheduleUpdateDiagnostics: the running status is canceled, a new status
\* takes the slot, and updateProjectDiagnostics starts with it for the
\* service of the changed documents' project, if the map has one
scheduleUpdateDiagnostics(running, started, up, sourceFiles) ==
  IF up = "up"
  THEN Append(CancelRunning(running, started),
              [isCanceled |-> FALSE, pc |-> "delay",
               todo |-> SetToSeq(sourceFiles), begun |-> {}])
  ELSE CancelRunning(running, started)

\* executeQueue from the end of the barrier check to its first await: cancel
\* the project-wide update, snapshot and clear the change queue
QueueSnapshot ==
  /\ runningDiagnosticsUpdate' =
       IF runningDiagnosticsUpdate = "undefined" THEN "undefined" ELSE "canceled"
  /\ passes' = CancelRunning(runningDiagnosticsUpdate, passes)
  /\ changeQueue' = {}
  /\ qdocs' = changeQueue
  /\ IF changeQueue = {}
     THEN executeTimeout' = FALSE /\ qpc' = "idle"
     ELSE executeTimeout' = TRUE /\ qpc' = "group"

\* the timer of scheduleExecuteQueue fires and executeQueue begins
QueueTimerFires ==
  /\ qpc = "timer"
  /\ qfound' = activeRenameBarrier
  /\ IF BarrierHeld(activeRenameBarrier)
     THEN /\ qpc' = "barrier"
          /\ UNCHANGED <<runningDiagnosticsUpdate, passes, changeQueue, qdocs,
                         executeTimeout>>
     ELSE QueueSnapshot
  /\ UNCHANGED <<documentUpdateStatus, contentWaiters, nevents, graph>>
  /\ UNCHANGED <<docVars, buildVars, barrierVars>>
  /\ UNCHANGED engineVars
  /\ UNCHANGED requestVars
  /\ UNCHANGED nonOrchVars

\* the barrier the run awaits was resolved
QueueResume ==
  /\ qpc = "barrier"
  /\ qfound \in released
  /\ QueueSnapshot
  /\ UNCHANGED <<qfound, documentUpdateStatus, contentWaiters, nevents, graph>>
  /\ UNCHANGED <<docVars, buildVars, barrierVars>>
  /\ UNCHANGED engineVars
  /\ UNCHANGED requestVars
  /\ UNCHANGED nonOrchVars

RECURSIVE StageAll(_, _, _)
StageAll(g, openDocs, batch) ==
  IF batch = <<>> THEN g
  ELSE CHOOSE out \in
         { StageAll(g1, openDocs, Tail(batch)) :
             g1 \in {addOrUpdateFile(g, Head(batch), openDocs[Head(batch)])} } : TRUE

\* the service of the batch's project is awaited: with it every document
\* of the batch is staged in the engine and in the graph, then the first
\* diagnostics are awaited; without it executeQueue ends with the
\* rejection and executeTimeout stays set
QueueStage ==
  /\ qpc = "group"
  /\ \E outcome \in ServiceOutcomes(serviceUp) :
       /\ serviceUp' = ServiceAfter(outcome)
       /\ IF outcome = "service"
          THEN /\ qpc' = "diag"
               /\ graph' = StageAll(graph, docs, SetToSeq(qdocs))
               /\ resident' = HostFiles(serviceUp, resident, disk) \cup qdocs
          ELSE /\ qpc' = "threw"
               /\ UNCHANGED <<graph, resident>>
  /\ UNCHANGED <<changeQueue, executeTimeout, documentUpdateStatus,
                 runningDiagnosticsUpdate, passes, contentWaiters, qfound, qdocs,
                 nevents, invalidated>>
  /\ UNCHANGED <<docVars, buildVars, barrierVars>>
  /\ UNCHANGED requestVars
  /\ UNCHANGED nonOrchVars

\* the diagnostics of one document of the batch are done; after the last
\* one the run ends, rescheduling itself or the project-wide update
QueueDiag ==
  /\ qpc = "diag"
  /\ \E d \in {Head(SetToSeq(qdocs))} :
       /\ documentUpdateStatus' = documentUpdateStatus \ {d}
       /\ requests' = { Resolved(r, d) : r \in requests }
       /\ qdocs' = qdocs \ {d}
       /\ IF qdocs \ {d} # {}
          THEN UNCHANGED <<executeTimeout, qpc, runningDiagnosticsUpdate, passes>>
          ELSE IF changeQueue # {}
            THEN /\ executeTimeout' = TRUE
                 /\ qpc' = "timer"
                 /\ UNCHANGED <<runningDiagnosticsUpdate, passes>>
          ELSE /\ executeTimeout' = FALSE
               /\ qpc' = "idle"
               /\ runningDiagnosticsUpdate' = "live"
               /\ passes' = scheduleUpdateDiagnostics(runningDiagnosticsUpdate, passes,
                                                      serviceUp, resident)
  /\ UNCHANGED <<changeQueue, contentWaiters, qfound, nevents, graph>>
  /\ UNCHANGED <<docVars, buildVars, barrierVars>>
  /\ UNCHANGED engineVars
  /\ UNCHANGED nonOrchVars

\* --- file-move rename: will-rename and did-rename ---

\* onWillRenameFiles up to the first await of computeRenameEdits: a new
\* barrier goes into the slot and the candidate set is read from the graph
WillRenameFilesOf(sources, targets) ==
  /\ created < MaxRenames
  /\ created' = created + 1
  /\ activeRenameBarrier' = created + 1
  /\ outstanding' = Append(outstanding, created + 1)
  /\ \E old \in DOMAIN disk \cap sources, new \in targets \ DOMAIN disk :
       \E renames \in {<<[oldPath |-> old, newPath |-> new, outcome |-> "service"]>>} :
         wills' = Append(wills, [pc |-> "compute",
                                 renames |-> renames,
                                 candidateFiles |-> SetToSeq(CandidateFiles(renames, graph)),
                                 graphReady |-> ready,
                                 edits |-> <<>>,
                                 did |-> "pending"])
  /\ UNCHANGED <<released, dids, filesToRefreshAfterRename, graph>>
  /\ UNCHANGED <<docVars, buildVars, queueVars, engineVars>>
  /\ UNCHANGED requestVars
  /\ UNCHANGED nonOrchVars

\* the client renames the file that is not open
WillRenameFiles == WillRenameFilesOf(OrchRenameSources, OrchPaths)

\* the rest of computeRenameEdits, then the await of isReady; when the
\* service cannot be created the handler ends with the rejection
WillCompute ==
  /\ \E id \in DOMAIN wills :
       /\ wills[id].pc = "compute"
       /\ \E outcome \in ServiceOutcomes(serviceUp) :
            IF outcome = "service"
            THEN /\ \E documentChanges \in
                      { RenameDocumentChanges(wills[id].renames, wills[id].candidateFiles,
                                              docs, disk) } :
                      /\ wills' = [wills EXCEPT ![id].pc = "awaitReady",
                                                ![id].edits = documentChanges]
                      /\ filesToRefreshAfterRename' =
                           [defined |-> TRUE,
                            uris |-> {documentChanges[n].uri :
                                        n \in 1 .. Len(documentChanges)}]
                 /\ serviceUp' = ServiceAfter(outcome)
                 /\ resident' = HostFiles(serviceUp, resident, disk)
                                \cup RenameStaged(wills[id].renames,
                                                  wills[id].candidateFiles, docs, disk)
            ELSE /\ wills' = [wills EXCEPT ![id].pc = "threw"]
                 /\ serviceUp' = ServiceAfter(outcome)
                 /\ UNCHANGED <<filesToRefreshAfterRename, resident>>
  /\ UNCHANGED <<activeRenameBarrier, created, released, outstanding, dids, graph,
                 invalidated>>
  /\ UNCHANGED <<docVars, buildVars, queueVars>>
  /\ UNCHANGED requestVars
  /\ UNCHANGED nonOrchVars

\* isReady has resolved: the edits are returned
WillRespond ==
  /\ ready
  /\ \E id \in DOMAIN wills :
       /\ wills[id].pc = "awaitReady"
       /\ wills' = [wills EXCEPT ![id].pc = "responded"]
  /\ UNCHANGED <<activeRenameBarrier, created, released, outstanding, dids,
                 filesToRefreshAfterRename, graph>>
  /\ UNCHANGED <<docVars, buildVars, queueVars>>
  /\ UNCHANGED engineVars
  /\ UNCHANGED requestVars
  /\ UNCHANGED nonOrchVars

\* the client has renamed the file; onDidRenameFiles up to its await of the
\* service: the graph node moves
DidRenameFiles ==
  /\ outstanding # <<>>
  /\ \E r \in {wills[Head(outstanding)].renames[1]} :
       /\ r.oldPath \in DOMAIN disk
       /\ r.newPath \notin DOMAIN disk
       /\ disk' = [q \in (DOMAIN disk \ {r.oldPath}) \cup {r.newPath} |->
                     IF q = r.newPath THEN disk[r.oldPath] ELSE disk[q]]
       /\ graph' = renameFile(graph, r.oldPath, r.newPath)
  /\ outstanding' = Tail(outstanding)
  /\ dids' = dids \cup {Head(outstanding)}
  /\ wills' = [wills EXCEPT ![Head(outstanding)].did = "graph"]
  /\ UNCHANGED <<activeRenameBarrier, created, released,
                 filesToRefreshAfterRename, docs>>
  /\ UNCHANGED <<buildVars, queueVars, engineVars>>
  /\ UNCHANGED requestVars
  /\ UNCHANGED nonOrchVars

\* the end of onDidRenameFiles: the engine is updated unless the service
\* cannot be had (the failure is logged), the edited closed files are
\* invalidated in the service of the map, the barrier in the slot is
\* resolved and the slot is cleared
DidRenameFinish ==
  /\ \E id \in dids :
       /\ dids' = dids \ {id}
       /\ \E outcome \in ServiceOutcomes(serviceUp), r \in {wills[id].renames[1]} :
            /\ serviceUp' = ServiceAfter(outcome)
            /\ resident' =
                 IF outcome = "service"
                 THEN (HostFiles(serviceUp, resident, disk) \ {r.oldPath}) \cup {r.newPath}
                 ELSE resident
            /\ invalidated' =
                 IF outcome = "service" /\ filesToRefreshAfterRename.defined
                 THEN invalidated \cup (filesToRefreshAfterRename.uris \ DOMAIN docs)
                 ELSE invalidated
            /\ wills' = [wills EXCEPT ![id].did =
                           IF outcome = "service" THEN "engine" ELSE "engineFailed"]
  /\ filesToRefreshAfterRename' = [defined |-> FALSE, uris |-> {}]
  /\ released' = released \cup
                   (IF activeRenameBarrier # NoBarrier THEN {activeRenameBarrier} ELSE {})
  /\ activeRenameBarrier' = NoBarrier
  /\ UNCHANGED <<created, outstanding, graph>>
  /\ UNCHANGED <<docVars, buildVars, queueVars>>
  /\ UNCHANGED requestVars
  /\ UNCHANGED nonOrchVars

\* updateProjectDiagnostics from one await to the next: the loop over the
\* program's source files checks the flag before each file, passes over
\* the files without an open document, and awaits updateDiagnosticsForDoc
\* for the first open one
RECURSIVE PassRun(_, _)
PassRun(pass, open) ==
  IF pass.todo = <<>> \/ PassStops(pass) THEN [pass EXCEPT !.pc = "done"]
  ELSE IF Head(pass.todo) \in open
    THEN [pass EXCEPT !.pc = "diag", !.todo = Tail(pass.todo),
                      !.begun = pass.begun \cup {Head(pass.todo)}]
  ELSE CHOOSE out \in { PassRun(rest, open) :
                          rest \in {[pass EXCEPT !.todo = Tail(pass.todo)]} } : TRUE

\* the propagation delay or the diagnostics of one document end
PassResume ==
  /\ \E k \in DOMAIN passes :
       /\ passes[k].pc \in {"delay", "diag"}
       /\ passes' = [passes EXCEPT ![k] = PassRun(passes[k], DOMAIN docs)]
  /\ UNCHANGED <<changeQueue, executeTimeout, documentUpdateStatus,
                 runningDiagnosticsUpdate, contentWaiters, qpc, qfound, qdocs, nevents>>
  /\ UNCHANGED <<docVars, graph, buildVars, barrierVars, engineVars>>
  /\ UNCHANGED requestVars
  /\ UNCHANGED nonOrchVars

\* onRenameRequest up to `await updating(params.textDocument)`: the service
\* is awaited, then the promise of the document's entry in
\* documentUpdateStatus, if there is one, is awaited
RenameRequest ==
  /\ \E d \in DOMAIN docs, outcome \in ServiceOutcomes(serviceUp) :
       /\ serviceUp' = ServiceAfter(outcome)
       /\ resident' = IF outcome = "service" THEN HostFiles(serviceUp, resident, disk)
                      ELSE resident
       /\ requests' = requests \cup
            {[doc |-> d,
              pc |-> IF outcome # "service" THEN "threw"
                     ELSE IF d \in documentUpdateStatus THEN "awaiting"
                     ELSE "resumed"]}
  /\ UNCHANGED <<invalidated, graph>>
  /\ UNCHANGED <<docVars, buildVars, queueVars, barrierVars>>
  /\ UNCHANGED nonOrchVars

\* the server without file renames, with symbol-rename requests
RequestNext ==
  \/ BuildStart \/ BuildListed \/ BuildReadFile
  \/ DidChangeContent \/ ContentGraphUpdate
  \/ QueueTimerFires \/ QueueStage \/ QueueDiag
  \/ RenameRequest

\* the editor shows a renamed file under its new path, its imports removed
ChangeRenamedContent == DidChangeContentOf({pathC}, {<<>>})

\* the client renames either file of the workspace
WillRenameEither ==
  \/ WillRenameFilesOf({pathA}, {pathC})
  \/ WillRenameFilesOf({pathB}, {pathBee})

\* the server with renames of both files, also two at a time, and a
\* document open under a renamed file's new path
RenameNext ==
  \/ BuildStart \/ BuildListed \/ BuildReadFile
  \/ ChangeRenamedContent \/ ContentGraphUpdate
  \/ QueueTimerFires \/ QueueResume \/ QueueStage \/ QueueDiag
  \/ WillRenameEither \/ WillCompute \/ WillRespond
  \/ DidRenameFiles \/ DidRenameFinish

\* the server without rename notifications, with the propagation passes
DiagNext ==
  \/ BuildStart \/ BuildListed \/ BuildReadFile
  \/ DidChangeContent \/ ContentGraphUpdate
  \/ QueueTimerFires \/ QueueStage \/ QueueDiag
  \/ PassResume

BuildNext ==
  \/ BuildStart \/ BuildListed \/ BuildReadFile \/ DiskUnlink
  \/ DidChangeContent \/ ContentGraphUpdate
  \/ QueueTimerFires \/ QueueStage \/ QueueDiag

OrchNext ==
  \/ BuildStart \/ BuildListed \/ BuildReadFile
  \/ DidChangeContent \/ ContentGraphUpdate
  \/ QueueTimerFires \/ QueueResume \/ QueueStage \/ QueueDiag
  \/ WillRenameFiles \/ WillCompute \/ WillRespond
  \/ DidRenameFiles \/ DidRenameFinish

-----------------------------------------------------------------------------
(* The symbol rename resolver run: documents are opened, the engine's       *)
(* locations are drawn, then handleRename runs its loop one location at a   *)
(* time and returns after alias propagation.                                *)

pathT == <<"/", "t", ".", "t", "s">>

\* console.log abc
srcConsoleLog == <<"c", "o", "n", "s", "o", "l", "e", ".", "l", "o", "g", " ", "a", "b", "c">>
\* two lines: `a ` and ` b$1 `
srcTwoLines == <<"a", " ", "\n", " ", "b", "$", "1", " ">>
\* abc = 1
srcAssign == <<"a", "b", "c", " ", "=", " ", "1">>
\* import {abc} from './a'
srcImportAbc == kwImport \o <<" ", "{", "a", "b", "c", "}", " ">> \o kwFrom
                \o <<" ", "'", ".", "/", "a", "'">>

\* two lines: import {abc} from './c' and import d from './a'
srcImportAbcFromC == kwImport \o <<" ", "{", "a", "b", "c", "}", " ">> \o kwFrom
                     \o <<" ", "'", ".", "/", "c", "'", "\n">>
                     \o kwImport \o <<" ", "d", " ">> \o kwFrom
                     \o <<" ", "'", ".", "/", "a", "'">>

\* the documents that can be open, each with the texts it can have
SymDocChoices ==
  { <<pathA, srcConsoleLog>>, <<pathA, srcTwoLines>>,
    <<pathT, srcAssign>>, <<pathB, srcImportAbc>>, <<pathB, srcImportAbcFromC>> }

SymNewName == <<"z", "z">>

\* remapped start positions
SymStarts ==
  { [line |-> l, character |-> c] : l \in {0, 1}, c \in {1, 4, 11, 20} }

\* engine span lengths
SymLengths == {1, 4}

BaseLocation ==
  [fileName |-> pathA, inProgram |-> TRUE, spanStart |-> 0, length |-> 4,
   mappedStart |-> [line |-> 0, character |-> 11],
   prefixText |-> NoText, suffixText |-> NoText]

\* the locations findRenameLocations can report
SymLocations ==
  { [BaseLocation EXCEPT !.mappedStart = st, !.length = n] :
      st \in SymStarts, n \in SymLengths }
  \cup { [BaseLocation EXCEPT !.suffixText = sfx] :
           sfx \in { <<" ">> \o asSpace \o <<"a", "b", "c">>,
                     <<" ">> \o asSpace \o <<"q">> } }
  \cup { [BaseLocation EXCEPT !.prefixText = <<"a", "b", "c", ":", " ">>] }
  \cup { [BaseLocation EXCEPT !.inProgram = FALSE] }
  \cup { [BaseLocation EXCEPT !.fileName = pathT, !.spanStart = st, !.length = 3] :
           st \in {0, 6} }

\* the number of locations the engine reports
MaxLocs == 2

SymInit ==
  /\ symPhase = "setup"
  /\ symLocs = <<>>
  /\ symIdx = 1
  /\ symChanges = [u \in {} |-> <<>>]
  /\ aliasChanges = <<>>
  /\ symResult = "pending"
  /\ symEngine = "pending"

\* a document is opened in the editor
SymOpenDocument ==
  /\ symPhase = "setup"
  /\ \E choice \in SymDocChoices :
       /\ choice[1] \notin DOMAIN docs
       /\ docs' = (choice[1] :> choice[2]) @@ docs
  /\ UNCHANGED symVars
  /\ UNCHANGED nonSymVars

\* one more location in the engine's answer
SymAddLocation ==
  /\ symPhase = "setup"
  /\ Len(symLocs) < MaxLocs
  /\ \E loc \in SymLocations : symLocs' = Append(symLocs, loc)
  /\ UNCHANGED <<symPhase, symIdx, symChanges, aliasChanges, symResult, symEngine, docs>>
  /\ UNCHANGED nonSymVars

\* what the collaborators of handleRename do: ensureServiceForSourcePath
\* rejects or resolves to nothing, findRenameLocations throws or returns
\* undefined, the service has no program, or the locations are returned
EngineOutcomes ==
  {"serviceRejects", "noService", "throws", "undefined", "noProgram", "locations"}

\* a handler without the try around findRenameLocations
RequestResultUnguarded(engine) ==
  IF engine = "locations" THEN "pending"
  ELSE IF engine \in {"serviceRejects", "throws"} THEN "threw"
  ELSE "null"

\* how handleRename ends before its loop: the awaited service rejects and
\* so does the handler; a missing service, a findRenameLocations that
\* throws or returns nothing, and a missing program give null
RequestResult(engine) ==
  IF engine = "locations" THEN "pending"
  ELSE IF engine = "serviceRejects" THEN "threw"
  ELSE "null"

\* handleRename up to its loop; only the findRenameLocations call is guarded
SymRequest ==
  /\ symPhase = "setup"
  /\ \E engine \in EngineOutcomes :
       /\ symEngine' = engine
       /\ symResult' = RequestResult(engine)
       /\ symPhase' = IF engine = "locations" THEN "loop" ELSE "done"
  /\ UNCHANGED <<symLocs, symIdx, symChanges, aliasChanges, docs>>
  /\ UNCHANGED nonSymVars

\* workspaceEdit.changes[uri] exists from here on
WithUri(changes, uri) ==
  [u \in DOMAIN changes \cup {uri} |-> IF u \in DOMAIN changes THEN changes[u] ELSE <<>>]

\* the loop body: no source file, no document or no token and the location
\* is passed over; else one edit is pushed for its uri
LocationStepBody(changes, aliases, openDocs, loc, idx, newName) ==
  IF ~loc.inProgram
    THEN [changes |-> changes, aliases |-> aliases]
  ELSE IF ~HasDocument(openDocs, loc.fileName)
    THEN [changes |-> WithUri(changes, loc.fileName), aliases |-> aliases]
  ELSE CHOOSE out \in
    { IF range.skip
      THEN [changes |-> WithUri(changes, loc.fileName), aliases |-> aliases]
      ELSE CHOOSE made \in
        { [changes |->
             [WithUri(changes, loc.fileName) EXCEPT
                ![loc.fileName] =
                  Append(@, [range |-> [start |-> range.start, end |-> range.end],
                             newText |-> rt.newText,
                             origin |-> idx])],
           aliases |-> aliases \o rt.alias] :
            rt \in {ReplacementText(DocText(openDocs, loc.fileName),
                                    [start |-> range.start, end |-> range.end],
                                    loc, loc.fileName, newName)} } : TRUE :
        range \in {LocationRange(DocText(openDocs, loc.fileName), loc)} } : TRUE

\* a loop body that gives up everything collected so far when a location
\* has no document
LocationStepGivingUp(changes, aliases, openDocs, loc, idx, newName) ==
  IF loc.inProgram /\ ~HasDocument(openDocs, loc.fileName)
  THEN [changes |-> [u \in DOMAIN changes \cup {loc.fileName} |-> <<>>],
        aliases |-> <<>>]
  ELSE LocationStepBody(changes, aliases, openDocs, loc, idx, newName)

\* the body of `for (const edit of edits)` for location idx: what it makes
\* of workspaceEdit.changes and of aliasChanges
LocationStep(changes, aliases, openDocs, loc, idx, newName) ==
  LocationStepBody(changes, aliases, openDocs, loc, idx, newName)

\* one iteration of `for (const edit of edits)`, as an action
SymLocationStep ==
  /\ symPhase = "loop"
  /\ symIdx <= Len(symLocs)
  /\ symIdx' = symIdx + 1
  /\ \E out \in {LocationStep(symChanges, aliasChanges, docs, symLocs[symIdx],
                               symIdx, SymNewName)} :
       /\ symChanges' = out.changes
       /\ aliasChanges' = out.aliases
  /\ UNCHANGED <<symPhase, symLocs, symResult, symEngine, docs>>
  /\ UNCHANGED nonSymVars

\* the loop is over: alias propagation, then the workspace edit is returned
SymReturn ==
  /\ symPhase = "loop"
  /\ symIdx > Len(symLocs)
  /\ symPhase' = "done"
  /\ symResult' = "edit"
  /\ symChanges' = applyAliasPropagation(aliasChanges, docs, disk, symChanges)
  /\ UNCHANGED <<symLocs, symIdx, aliasChanges, symEngine, docs>>
  /\ UNCHANGED nonSymVars

SymNext ==
  SymOpenDocument \/ SymAddLocation \/ SymRequest \/ SymLocationStep \/ SymReturn

-----------------------------------------------------------------------------
(* ensureServiceForSourcePath called concurrently for files of one project: *)
(* each action is one stretch of a call between two awaits.                 *)

\* the project path of every call
projPath == "file:///"

\* the number of calls
MaxCalls == 3

NoService == 0

nonSvcVars == <<scanVars, graphVars, docVars, moveVars, orchVars, symVars>>

SvcInit ==
  /\ projectPathToPendingPromiseMap = [q \in {} |-> 0]
  /\ projectPathToServiceMap = [q \in {} |-> 0]
  /\ ensureCalls = <<>>
  /\ spawned = 0

\* a call begins: getProjectPathFromSourcePath, then the await of the
\* pending promise of the project, which is undefined when none is pending
EnsureCall ==
  /\ Len(ensureCalls) < MaxCalls
  /\ ensureCalls' =
       Append(ensureCalls,
              [pc |-> IF projPath \in DOMAIN projectPathToPendingPromiseMap
                      THEN "pending" ELSE "lookup",
               awaited |-> IF projPath \in DOMAIN projectPathToPendingPromiseMap
                           THEN projectPathToPendingPromiseMap[projPath] ELSE 0,
               service |-> NoService])
  /\ UNCHANGED <<projectPathToPendingPromiseMap, projectPathToServiceMap, spawned>>
  /\ UNCHANGED nonSvcVars

\* the pending promise a call awaits has resolved: its owner has finished
EnsurePendingResolved ==
  /\ \E c \in DOMAIN ensureCalls :
       /\ ensureCalls[c].pc = "pending"
       /\ ensureCalls[ensureCalls[c].awaited].pc = "done"
       /\ ensureCalls' = [ensureCalls EXCEPT ![c].pc = "lookup"]
  /\ UNCHANGED <<projectPathToPendingPromiseMap, projectPathToServiceMap, spawned>>
  /\ UNCHANGED nonSvcVars

\* after the first await: the service of the project is returned when the
\* map has one, else TSService(projPath) is called and awaited
EnsureLookup ==
  /\ \E c \in DOMAIN ensureCalls :
       /\ ensureCalls[c].pc = "lookup"
       /\ IF projPath \in DOMAIN projectPathToServiceMap
          THEN /\ ensureCalls' = [ensureCalls EXCEPT
                                    ![c].pc = "done",
                                    ![c].service = projectPathToServiceMap[projPath]]
               /\ UNCHANGED spawned
          ELSE /\ ensureCalls' = [ensureCalls EXCEPT
                                    ![c].pc = "spawning", ![c].service = spawned + 1]
               /\ spawned' = spawned + 1
  /\ UNCHANGED <<projectPathToPendingPromiseMap, projectPathToServiceMap>>
  /\ UNCHANGED nonSvcVars

\* TSService resolved: loadPlugins() is called, its promise is put into
\* the pending map and awaited
EnsureSpawned ==
  /\ \E c \in DOMAIN ensureCalls :
       /\ ensureCalls[c].pc = "spawning"
       /\ ensureCalls' = [ensureCalls EXCEPT ![c].pc = "loading"]
       /\ projectPathToPendingPromiseMap' =
            (projPath :> c) @@ projectPathToPendingPromiseMap
  /\ UNCHANGED <<projectPathToServiceMap, spawned>>
  /\ UNCHANGED nonSvcVars

\* loadPlugins resolved: the service is put into the service map, the
\* pending promise of the project is deleted and the service is returned
EnsureLoaded ==
  /\ \E c \in DOMAIN ensureCalls :
       /\ ensureCalls[c].pc = "loading"
       /\ ensureCalls' = [ensureCalls EXCEPT ![c].pc = "done"]
       /\ projectPathToServiceMap' =
            (projPath :> ensureCalls[c].service) @@ projectPathToServiceMap
       /\ projectPathToPendingPromiseMap' = [q \in {} |-> 0]
  /\ UNCHANGED spawned
  /\ UNCHANGED nonSvcVars

SvcNext ==
  EnsureCall \/ EnsurePendingResolved \/ EnsureLookup \/ EnsureSpawned \/ EnsureLoaded

-----------------------------------------------------------------------------

Init == ScanInit /\ GraphInit /\ DocInit /\ MoveInit /\ OrchInit /\ SymInit /\ SvcInit

Spec == Init /\ [][GraphNext]_vars

SpecScan == Init /\ [][ScanNext]_vars

SpecMove == Init /\ [][MoveNext]_vars

SpecOrch == Init /\ [][OrchNext]_vars

SpecSym == Init /\ [][SymNext]_vars

SpecDiag == Init /\ [][DiagNext]_vars

SpecService == Init /\ [][SvcNext]_vars

SpecRequest == Init /\ [][RequestNext]_vars

SpecRename == Init /\ [][RenameNext]_vars

\* the build with the change pipeline running beside it; the walk and the
\* reads that build awaits complete
SpecBuild == Init /\ [][BuildNext]_vars /\ WF_vars(BuildListed \/ BuildReadFile)

\* every path that is a key or occurs in an edge set
Mentioned(g) ==
  DOMAIN g \cup UNION { g[q].imports \cup g[q].importedBy : q \in DOMAIN g }

ImportsOf(g, p) == IF p \in DOMAIN g THEN g[p].imports ELSE {}
ImportedByOf(g, p) == IF p \in DOMAIN g THEN g[p].importedBy ELSE {}

(* C1: after any sequence of completed addOrUpdateFile, removeFile and      *)
(* renameFile calls from the empty graph, for all paths A and B: A is in    *)
(* imports(B) iff B is in importedBy(A), and every path that occurs in an   *)
(* edge set has a node.                                                      *)
C1_EdgeSymmetry ==
  /\ \A A \in Mentioned(graph), B \in Mentioned(graph) :
       (A \in ImportsOf(graph, B)) <=> (B \in ImportedByOf(graph, A))
  /\ Mentioned(graph) \subseteq DOMAIN graph

\* the rename that just completed, for a path that had a node
RenamedFrom == PathNormalize(lastOp.a)
RenamedTo == PathNormalize(lastOp.b)
RenameDone == lastOp.op = "renameFile" /\ RenamedFrom \in DOMAIN pre

\* a reference to the old path counts as a reference to the new one
AsNew(m) == IF m = RenamedFrom THEN RenamedTo ELSE m

(* C2: renameFile(old, new) never loses edges: when old had a node, after   *)
(* the call the node at new exists and its imports and importedBy contain   *)
(* every member the old node's sets had (old itself counted as new) and     *)
(* every member the destination node's sets had before the call.            *)
C2_RenameKeepsEdges ==
  RenameDone =>
    /\ RenamedTo \in DOMAIN graph
    /\ \A m \in ImportsOf(pre, RenamedFrom) \cup ImportsOf(pre, RenamedTo) :
         AsNew(m) \in ImportsOf(graph, RenamedTo)
    /\ \A m \in ImportedByOf(pre, RenamedFrom) \cup ImportedByOf(pre, RenamedTo) :
         AsNew(m) \in ImportedByOf(graph, RenamedTo)

(* C3: after renameFile(old, new) of a path old that had a node (new being  *)
(* another path), the graph has no node keyed old and old occurs in no      *)
(* node's imports or importedBy.                                             *)
C3_OldPathGone ==
  (RenameDone /\ RenamedFrom # RenamedTo) =>
    /\ RenamedFrom \notin DOMAIN graph
    /\ \A q \in DOMAIN graph :
         RenamedFrom \notin graph[q].imports \cup graph[q].importedBy

\* every path a text of the workspace can be read at
MovePaths == DOMAIN docs \cup DOMAIN disk

\* a path without its extension (path.extname)
WithoutExtension(p) == SubSeq(p, 1, Len(p) - Len(PathExtname(p)))

\* the match's specifier is relative and, resolved against the directory of
\* file f and compared without extension, equals oldPath
ResolvesToOld(f, match, oldPath) ==
  /\ IsRelativeSpec(stripQuotes(match.spec))
  /\ WithoutExtension(PathResolve(PathDirname(f), stripQuotes(match.spec)))
       = WithoutExtension(oldPath)

\* the returned edits hold an edit of file f over the match's range
EditEmitted(f, content, match) ==
  \E n \in 1 .. Len(moveResult.edits) :
    /\ moveResult.edits[n].uri = f
    /\ \E e \in 1 .. Len(moveResult.edits[n].edits) :
         moveResult.edits[n].edits[e].range =
           [start |-> PositionAt(content, match.offset),
            end |-> PositionAt(content, match.offset + match.length)]

(* C10: for the batch given to computeRenameEdits, a text edit is emitted   *)
(* for an import match if and only if the match lies in a file of the       *)
(* candidate set (over the batch, each oldPath and its dependents) and its  *)
(* relative specifier, resolved against the file's directory and compared   *)
(* without extension, equals the oldPath of a pair of the batch.            *)
C10_EditsExactlyForOldPath ==
  (movePhase = "done" /\ \A k \in 1 .. Len(moveBatch) : moveBatch[k].outcome = "service") =>
    \A f \in MovePaths :
      \A content \in {ReadContent(docs, disk, f)} :
        \A imports \in {findAllImports(content)} :
          \A j \in 1 .. Len(imports) :
            EditEmitted(f, content, imports[j])
              <=> /\ f \in CandidateFiles(moveBatch, graph)
                  /\ \E k \in 1 .. Len(moveBatch) :
                       ResolvesToOld(f, imports[j], moveBatch[k].oldPath)

\* the executeQueue run has taken its snapshot and works on its batch
QueueAtWork == qpc \in {"group", "diag"}

Unreleased == {b \in 1 .. created : b \notin released}

(* C5: the barrier is a single exclusive slot: at no time are there two     *)
(* distinct unreleased barriers, and the barrier an executeQueue run waits  *)
(* on is never replaced in the slot or discarded before it is released.     *)
C5_SingleBarrierSlot ==
  /\ Cardinality(Unreleased) <= 1
  /\ (qpc = "barrier" /\ qfound \notin released) => qfound = activeRenameBarrier

(* C6: every getDependentsOf query the will-rename handler makes while      *)
(* computing the edits it returns happens after the initial build of the    *)
(* graph has completed.                                                      *)
C6_QueriesAfterBuild ==
  \A id \in DOMAIN wills : wills[id].graphReady

-----------------------------------------------------------------------------
(* Symbol rename: what handleRename returns for the engine's locations.     *)

\* the first offset at or after off that holds no whitespace (or the end)
FirstNonWhitespace(t, off) ==
  MinOf({i \in off .. Len(t) : i = Len(t) \/ ~IsWs(At(t, i))})

\* the end of the maximal run of identifier characters from s
IdentifierRunEnd(t, s) ==
  MinOf({i \in s .. Len(t) : i = Len(t) \/ At(t, i) \notin IdentifierChars})

\* the loop has been through location k
Processed(k) == k \in 1 .. Len(symLocs) /\ k < symIdx

\* the edits of location k in the result, as <<uri, index>> pairs
EditsFor(k) ==
  { <<u, n>> \in UNION { {u} \X (1 .. Len(symChanges[u])) : u \in DOMAIN symChanges } :
      symChanges[u][n].origin = k }

\* location k is in a transpiled file that is in the program and open
Recovered(k) ==
  /\ symLocs[k].inProgram
  /\ HasSourcemap(symLocs[k].fileName)
  /\ symLocs[k].fileName \in DOMAIN docs

\* location k cannot be edited safely: its file is not in the program or has
\* no open document, or no identifier character follows its mapped start
Unsafe(k) ==
  \/ ~symLocs[k].inProgram
  \/ symLocs[k].fileName \notin DOMAIN docs
  \/ /\ HasSourcemap(symLocs[k].fileName)
     /\ LET t == docs[symLocs[k].fileName]
            s == FirstNonWhitespace(t, OffsetAt(t, symLocs[k].mappedStart))
        IN IdentifierRunEnd(t, s) = s

\* C7 as stated: a symbol rename is all-or-nothing -- a returned edit has an
\* edit for every reported location, and when some location cannot be
\* edited safely the result holds no text edit at all.
C7_AllOrNothing ==
  (symPhase = "done" /\ symResult = "edit") =>
    LET noTextEdits == \A u \in DOMAIN symChanges : symChanges[u] = <<>>
    IN /\ noTextEdits \/ \A k \in 1 .. Len(symLocs) : EditsFor(k) # {}
       /\ (\E k \in 1 .. Len(symLocs) : Unsafe(k)) => noTextEdits

\* C7 amended: handleRename drops exactly the locations that cannot be
\* edited safely and returns one edit, in the location's own file, for
\* every other location the engine reported; when it returns nothing at
\* all, no location was looked at.
C7_DropsOnlyUnsafe ==
  /\ (symPhase = "done" /\ symResult = "edit") =>
       \A k \in 1 .. Len(symLocs) :
         IF Unsafe(k) THEN EditsFor(k) = {}
         ELSE /\ Cardinality(EditsFor(k)) = 1
              /\ \A e \in EditsFor(k) : e[1] = symLocs[k].fileName
  /\ symResult = "null" => (symIdx = 1 /\ DOMAIN symChanges = {})

\* a result that keeps the edit of one location and drops another location
C7_Witness ==
  /\ symPhase = "done"
  /\ symResult = "edit"
  /\ \E j, k \in 1 .. Len(symLocs) :
       /\ Unsafe(j) /\ EditsFor(j) = {}
       /\ ~Unsafe(k) /\ EditsFor(k) # {}

\* C9: for a location in a transpiled file the range of the edit is fixed by
\* the mapped start and the original text alone: it starts at the first
\* non-whitespace character at or after the mapped start, ends after the
\* maximal run of identifier characters from there, is non-empty and holds
\* no whitespace; an empty run yields no edit. For `console.log abc` and a
\* 4-character span at the space before abc, the range is the 3 characters
\* of abc.
C9_RangeRecovery ==
  \A k \in 1 .. Len(symLocs) :
    (Processed(k) /\ Recovered(k)) =>
      LET t == docs[symLocs[k].fileName]
          s == FirstNonWhitespace(t, OffsetAt(t, symLocs[k].mappedStart))
          e == IdentifierRunEnd(t, s)
      IN IF s = e THEN EditsFor(k) = {}
         ELSE /\ Cardinality(EditsFor(k)) = 1
              /\ \A h \in EditsFor(k) :
                   LET range == symChanges[h[1]][h[2]].range
                   IN /\ h[1] = symLocs[k].fileName
                      /\ range.start = PositionAt(t, s)
                      /\ range.end = PositionAt(t, e)
                      /\ OffsetAt(t, range.start) = s
                      /\ OffsetAt(t, range.end) = e
                      /\ s < e
                      /\ \A i \in s .. (e - 1) : ~IsWs(At(t, i))
                      /\ (t = srcConsoleLog
                          /\ symLocs[k].mappedStart = [line |-> 0, character |-> 11]
                          /\ symLocs[k].length = 4) =>
                           /\ range.start = [line |-> 0, character |-> 12]
                           /\ range.end = [line |-> 0, character |-> 15]
                           /\ GetText(t, range) = <<"a", "b", "c">>

\* the `console.log abc` location has been through the loop and has its edit
C9_Witness ==
  /\ symPhase = "done"
  /\ pathA \in DOMAIN docs
  /\ docs[pathA] = srcConsoleLog
  /\ \E k \in 1 .. Len(symLocs) :
       /\ symLocs[k].fileName = pathA
       /\ symLocs[k].inProgram
       /\ symLocs[k].mappedStart = [line |-> 0, character |-> 11]
       /\ symLocs[k].length = 4
       /\ \E h \in EditsFor(k) :
            symChanges[h[1]][h[2]].range =
              [start |-> [line |-> 0, character |-> 12],
               end |-> [line |-> 0, character |-> 15]]

-----------------------------------------------------------------------------
(* Failures of the collaborators of the two entry points.                   *)

\* the documentChanges the pairs that have a service give on their own
ServedChanges ==
  RenameDocumentChanges(moveBatch, SetToSeq(CandidateFiles(moveBatch, graph)), docs, disk)

\* C11: nothing throws out of computeRenameEdits: whichever collaborator
\* fails for a pair (no service, service creation rejects, a file cannot be
\* read, a URI cannot be converted), the call completes and returns the
\* edits of the remaining pairs and files of the batch.
C11_NothingThrows ==
  movePhase = "done" =>
    /\ ~moveResult.threw
    /\ moveResult.edits = ServedChanges

-----------------------------------------------------------------------------
(* The graph operations one at a time.                                      *)

\* C12: addOrUpdateFile is idempotent: in the state after
\* addOrUpdateFile(p, c), the same call again leaves the set of nodes and
\* every node's imports and importedBy as they are.
C12_AddIdempotent ==
  lastOp.op = "addOrUpdateFile" =>
    \A p \in {lastOp.a}, c \in {lastOp.b} : addOrUpdateFile(graph, p, c) = graph

\* the same call made twice in a row on a file that has imports
C12_Witness ==
  /\ lastOp.op = "addOrUpdateFile"
  /\ nops >= 2
  /\ pre = graph
  /\ \A p \in {lastOp.a}, c \in {lastOp.b} : pre = addOrUpdateFile(pre, p, c)
  /\ PathNormalize(lastOp.a) \in DOMAIN graph
  /\ graph[PathNormalize(lastOp.a)].imports # {}

\* the last operation was addOrUpdateFile
Added == lastOp.op = "addOrUpdateFile"

\* the normalized path the last operation was called with
OpPath == PathNormalize(lastOp.a)

\* the sets of a path in a graph, empty when the path has no node
ImportsIn(g, q) == IF q \in DOMAIN g THEN g[q].imports ELSE {}
ImportedByIn(g, q) == IF q \in DOMAIN g THEN g[q].importedBy ELSE {}

\* the resolved targets of the relative specifiers the scanner finds in c
Targets(p, c) ==
  LET Target(dir, specRaw) ==
        CHOOSE out \in { IF PathExtname(r) = <<>> THEN r \o dotCivet ELSE r :
                           r \in {PathResolve(dir, specRaw)} } : TRUE
  IN UNION { { Target(dir, sp) :
                 sp \in {x \in {stripQuotes(found[k].spec) : k \in 1 .. Len(found)} :
                           StartsWith(x, <<".", "/">>) \/ StartsWith(x, <<".", ".", "/">>)} } :
             found \in {findAllImports(cc) : cc \in {c}},
             dir \in {PathDirname(pp) : pp \in {p}} }

\* C13: after addOrUpdateFile(p, c), imports(p) is exactly the set of
\* resolved targets of the relative specifiers of c; every target has a node
\* whose importedBy contains p; every path that was in imports(p) and is no
\* target now has lost p from its importedBy; importedBy(p) (but for p's
\* import of itself, which is one of the edges of p) and every edge that
\* does not involve p are unchanged.
C13_AddPostcondition ==
  Added =>
    /\ ImportsIn(graph, OpPath) = Targets(OpPath, lastOp.b)
    /\ \A t \in Targets(OpPath, lastOp.b) :
         t \in DOMAIN graph /\ OpPath \in graph[t].importedBy
    /\ \A q \in ImportsIn(pre, OpPath) \ Targets(OpPath, lastOp.b) :
         OpPath \notin ImportedByIn(graph, q)
    /\ ImportedByIn(graph, OpPath) \ {OpPath} = ImportedByIn(pre, OpPath) \ {OpPath}
    /\ \A q \in (DOMAIN graph \cup DOMAIN pre) \ {OpPath} :
         /\ q \in DOMAIN pre => q \in DOMAIN graph
         /\ ImportsIn(graph, q) = ImportsIn(pre, q)
         /\ ImportedByIn(graph, q) \ {OpPath} = ImportedByIn(pre, q) \ {OpPath}

\* C14: after removeFile(p) the graph has no node keyed p and p occurs in no
\* remaining node's imports or importedBy; the edges between other nodes
\* are unchanged; removeFile of a path without a node changes nothing.
C14_RemoveDetaches ==
  lastOp.op = "removeFile" =>
    /\ OpPath \notin DOMAIN graph
    /\ \A q \in DOMAIN graph :
         /\ OpPath \notin graph[q].imports
         /\ OpPath \notin graph[q].importedBy
         /\ q \in DOMAIN pre
         /\ graph[q].imports \ {OpPath} = pre[q].imports \ {OpPath}
         /\ graph[q].importedBy \ {OpPath} = pre[q].importedBy \ {OpPath}
    /\ DOMAIN graph = DOMAIN pre \ {OpPath}
    /\ OpPath \notin DOMAIN pre => graph = pre

\* C15: getDependentsOf(p) is a pure read: it returns exactly the members
\* of importedBy(p), or nothing when p has no node, and leaves the graph as
\* it is (no node created, no edge set changed); writing to the returned
\* list does not change the graph.
C15_DependentsPureRead ==
  /\ lastOp.op = "getDependentsOf" =>
       /\ graph = pre
       /\ lastOp.b.list = ImportedByIn(pre, OpPath)
  /\ lastOp.op = "mutateReturned" => graph = pre

\* the caller has changed the list that a query for a file with dependents
\* returned
C15_Witness ==
  /\ lastOp.op = "mutateReturned"
  /\ ImportedByIn(graph, OpPath) # {}
  /\ lastOp.b.list # ImportedByIn(graph, OpPath)

-----------------------------------------------------------------------------
(* The did-rename handler.                                                  *)

\* the did-rename handler of will-rename id ends in this step
DidFinishes(id) == id \in dids /\ id \notin dids'

\* the files will-rename id edited that are not open
EditedClosed(id) ==
  {wills[id].edits[n].uri : n \in 1 .. Len(wills[id].edits)} \ DOMAIN docs

\* C16: when a did-rename handler releases the barrier, renameFile has run
\* and the engine's resident files are updated for its renamed pair (old
\* path removed, new path added) and every edited closed file has been
\* invalidated; once the handler has finished, the old path is not resident
\* in the engine and no barrier is held: the slot is empty and no barrier
\* is released whose own rename is still to be done.
C16_ReleaseAfterUpdates ==
  [][ \A id \in DOMAIN wills :
        DidFinishes(id) =>
          /\ wills'[id].did = "engine"
          /\ wills[id].renames[1].oldPath \notin resident'
          /\ wills[id].renames[1].newPath \in resident'
          /\ EditedClosed(id) \subseteq invalidated'
          /\ activeRenameBarrier' = NoBarrier
          /\ id \in released'
          /\ \A b \in released' : wills'[b].did = "engine" ]_vars

\* the passes whose flag is not set
LivePasses == { k \in DOMAIN passes : ~passes[k].isCanceled }

NoTextEdit == \A u \in DOMAIN symChanges : symChanges[u] = <<>>

(* C18: when the engine's findRenameLocations throws, handleRename returns *)
(* null: nothing is thrown to the caller, no text edit is produced and no  *)
(* alias change is queued.                                                  *)
C18_EngineThrowIsNull ==
  (symPhase = "done" /\ symEngine = "throws") =>
    symResult = "null" /\ NoTextEdit /\ aliasChanges = <<>>

\* the engine threw for a request that had locations to report about open
\* documents
C18_Witness ==
  /\ symPhase = "done" /\ symEngine = "throws"
  /\ \E k \in DOMAIN symLocs : symLocs[k].fileName \in DOMAIN docs
\* location k is in the program and its file has no open document
Docless(k) == symLocs[k].inProgram /\ symLocs[k].fileName \notin DOMAIN docs

\* the reported locations without the docless ones, in order
RECURSIVE WithoutDocless(_)
WithoutDocless(k) ==
  IF k > Len(symLocs) THEN <<>>
  ELSE (IF Docless(k) THEN <<>> ELSE <<symLocs[k]>>) \o WithoutDocless(k + 1)

\* handleRename's loop and alias propagation for a list of locations
RECURSIVE LoopOver(_, _, _)
LoopOver(locs, k, sofar) ==
  IF k > Len(locs)
  THEN applyAliasPropagation(sofar.aliases, docs, disk, sofar.changes)
  ELSE CHOOSE out \in
         { LoopOver(locs, k + 1, next) :
             next \in {LocationStep(sofar.changes, sofar.aliases, docs, locs[k], k,
                                    SymNewName)} } : TRUE

\* the text edits of a workspace edit for a uri, as ranges and new texts
TextEdits(changes, u) ==
  IF u \in DOMAIN changes
  THEN [n \in 1 .. Len(changes[u]) |->
          [range |-> changes[u][n].range, newText |-> changes[u][n].newText]]
  ELSE <<>>

(* C19: a location whose file has no open document gets no text edit and   *)
(* raises no error, and the edits of every file are what handleRename      *)
(* returns when the engine does not report the docless locations.          *)
C19_DoclessSkipped ==
  (symPhase = "done" /\ symEngine = "locations") =>
    /\ symResult = "edit"
    /\ \A k \in 1 .. Len(symLocs) : Docless(k) => EditsFor(k) = {}
    /\ \A without \in {LoopOver(WithoutDocless(1), 1,
                                 [changes |-> [u \in {} |-> <<>>], aliases |-> <<>>])} :
         \A u \in DOMAIN symChanges \cup DOMAIN without :
           TextEdits(symChanges, u) = TextEdits(without, u)

\* a docless location was reported before a location that got its edit
C19_Witness ==
  /\ symPhase = "done" /\ symResult = "edit"
  /\ \E j, k \in 1 .. Len(symLocs) :
       j < k /\ Docless(j) /\ EditsFor(k) # {}
\* the locations with an edit in the result
Emitted == { k \in 1 .. Len(symLocs) : EditsFor(k) # {} }

\* the text the document has in the range of the edit of location k
CurrentText(k) ==
  CHOOSE t \in { GetText(docs[h[1]], symChanges[h[1]][h[2]].range) : h \in EditsFor(k) } :
    TRUE

\* the engine's prefix and suffix of location k, empty when it gives none
PrefixOf(k) == IF symLocs[k].prefixText = NoText THEN <<>> ELSE symLocs[k].prefixText
SuffixOf(k) == IF symLocs[k].suffixText = NoText THEN <<>> ELSE symLocs[k].suffixText

\* the suffix of location k is the alias clause of the text in its range
AliasClause(k) ==
  symLocs[k].suffixText # NoText /\ Trim(SuffixOf(k)) = asSpace \o CurrentText(k)

(* C20: the new text of every emitted edit is newName when the engine gave *)
(* neither prefix nor suffix, and prefix + newName + suffix when it gave   *)
(* one; but when the suffix, trimmed, is `as ` and the text in the edit's  *)
(* range, the new text is prefix + newName and one alias change from that  *)
(* text to newName is queued -- and no alias change is queued otherwise.   *)
C20_ReplacementPolicy ==
  /\ \A k \in Emitted : \A h \in EditsFor(k) :
       symChanges[h[1]][h[2]].newText =
         IF AliasClause(k) THEN PrefixOf(k) \o SymNewName
         ELSE IF symLocs[k].prefixText = NoText /\ symLocs[k].suffixText = NoText
           THEN SymNewName
         ELSE PrefixOf(k) \o SymNewName \o SuffixOf(k)
  /\ Len(aliasChanges) = Cardinality({ k \in Emitted : AliasClause(k) })
  /\ \A k \in Emitted : AliasClause(k) =>
       \E a \in DOMAIN aliasChanges :
         aliasChanges[a] = [modulePath |-> symLocs[k].fileName,
                            oldName |-> CurrentText(k), newName |-> SymNewName]

\* the result holds an edit that dropped an alias clause, one with a prefix
\* or a suffix kept, and the alias change
C20_Witness ==
  /\ symPhase = "done" /\ symResult = "edit"
  /\ \E j, k \in Emitted :
       /\ AliasClause(j)
       /\ ~AliasClause(k)
       /\ (symLocs[k].prefixText # NoText \/ symLocs[k].suffixText # NoText)
  /\ Len(aliasChanges) = 1
\* the propagated edits of a uri in the result, as ranges and new texts
Propagated(u) ==
  { [range |-> symChanges[u][n].range, newText |-> symChanges[u][n].newText] :
      n \in { m \in 1 .. Len(symChanges[u]) : symChanges[u][m].origin = 0 } }

\* the text alias propagation reads for a file: the open document, else
\* the Civet file on disk
PropagationText(f) ==
  IF f \in DOMAIN docs THEN docs[f]
  ELSE IF f \in DOMAIN disk /\ EndsWith(f, dotCivet) THEN disk[f]
  ELSE <<>>

\* the brace clause of the j-th import statement of a text: the offsets of
\* its `{` and `}` between the end of the statement before it and its own
\* specifier; <<0, 0>> when the statement has none
StatementBrace(content, matches, j) ==
  LET from == IF j = 1 THEN 0 ELSE matches[j - 1].offset + matches[j - 1].length
      opens == { i \in from .. (matches[j].offset - 1) : At(content, i) = "{" }
  IN IF opens = {} THEN <<0, 0>>
     ELSE LET open == MaxOf(opens)
              closes == { i \in open .. (matches[j].offset - 1) : At(content, i) = "}" }
          IN IF closes = {} THEN <<0, 0>> ELSE <<open, MinOf(closes)>>

\* the edits alias propagation owes a file: for every queued alias change
\* of another file and every `from` import of the file that resolves to
\* that module, the old name wherever it stands as a word in the brace
\* clause of that import
OwedEdits(f) ==
  LET content == PropagationText(f)
      matches == findAllImports(content)
      Resolves(a, j) ==
        LET specAbs == PathResolve(PathDirname(f), stripQuotes(matches[j].spec))
        IN matches[j].type = "from"
           /\ (specAbs = a.modulePath \/ StripExt(specAbs) = StripExt(a.modulePath))
  IN { [range |-> [start |-> PositionAt(content, i),
                   end |-> PositionAt(content, i + Len(aliasChanges[x].oldName))],
        newText |-> aliasChanges[x].newName] :
         <<x, j, i>> \in
           { <<x, j, i>> \in (DOMAIN aliasChanges) \X (DOMAIN matches)
                               \X (0 .. Len(content)) :
               /\ aliasChanges[x].modulePath # f
               /\ Resolves(aliasChanges[x], j)
               /\ StatementBrace(content, matches, j)[1] < i
               /\ i + Len(aliasChanges[x].oldName) <= StatementBrace(content, matches, j)[2]
               /\ Substring(content, i, i + Len(aliasChanges[x].oldName))
                    = aliasChanges[x].oldName
               /\ WordBoundary(content, i)
               /\ WordBoundary(content, i + Len(aliasChanges[x].oldName)) } }

(* C21: alias propagation gives every file other than the one the alias    *)
(* was dropped in an edit to the new name for each occurrence of the old   *)
(* name in the brace clause of an import of that module, and no other      *)
(* edit: none for imports of other modules, none outside the brace clause  *)
(* and none in the originating file.                                        *)
C21_AliasPropagation ==
  (symPhase = "done" /\ symResult = "edit") =>
    \A f \in DOMAIN symChanges \cup DOMAIN docs \cup DOMAIN disk :
      (IF f \in DOMAIN symChanges THEN Propagated(f) ELSE {}) = OwedEdits(f)
\* the lexical class of every character of a text from offset i on, read
\* left to right: "code", "delim" (a quote that opens or closes a string or
\* template literal), "str", "line" (line comment) or "block"
RECURSIVE Classify(_, _, _)
Classify(content, i, mode) ==
  IF i >= Len(content) THEN <<>>
  ELSE IF mode = "code"
    THEN IF At(content, i) \in {"\"", "'", Backtick}
           THEN <<"delim">> \o Classify(content, i + 1, At(content, i))
         ELSE IF At(content, i) = "/" /\ At(content, i + 1) = "/"
           THEN <<"line">> \o Classify(content, i + 1, "line")
         ELSE IF At(content, i) = "/" /\ At(content, i + 1) = "*"
           THEN <<"block", "block">> \o Classify(content, i + 2, "block")
         ELSE <<"code">> \o Classify(content, i + 1, "code")
  ELSE IF mode = "line"
    THEN IF At(content, i) = "\n" THEN <<"code">> \o Classify(content, i + 1, "code")
         ELSE <<"line">> \o Classify(content, i + 1, "line")
  ELSE IF mode = "block"
    THEN IF At(content, i) = "*" /\ At(content, i + 1) = "/"
           THEN <<"block", "block">> \o Classify(content, i + 2, "code")
         ELSE <<"block">> \o Classify(content, i + 1, "block")
  ELSE \* inside the literal that the quote `mode` opened
       IF At(content, i) = "\\" THEN <<"str", "str">> \o Classify(content, i + 2, mode)
       ELSE IF At(content, i) = mode THEN <<"delim">> \o Classify(content, i + 1, "code")
       ELSE <<"str">> \o Classify(content, i + 1, mode)

\* the offsets at which a keyword occurs in a text
Occurrences(content, keyword) ==
  { k \in 0 .. (Len(content) - Len(keyword)) :
      Substring(content, k, k + Len(keyword)) = keyword }

\* the occurrence of keyword at k is inside a literal or a comment
Enclosed(content, k) == Classify(content, 0, "code")[k + 1] \in {"str", "line", "block"}

\* the occurrence of keyword at k is part of a longer word
InLongerWord(content, k, keyword) ==
  \/ (k > 0 /\ content[k] \in WordChars)
  \/ (k + Len(keyword) < Len(content) /\ content[k + Len(keyword) + 1] \in WordChars)

\* no occurrence of import or export is a keyword of the code
NoKeywordInCode(content) ==
  \A keyword \in {kwImport, kwExport} : \A k \in Occurrences(content, keyword) :
    Enclosed(content, k) \/ InLongerWord(content, k, keyword)

(* C22: for a text in which every occurrence of import and export lies     *)
(* inside a string literal, a template literal, a line comment or a block  *)
(* comment, or is part of a longer word, findAllImports returns no match.  *)
C22_NoMatchOutsideCode ==
  (phase = "done" /\ NoKeywordInCode(text)) => results = <<>>

\* a scanned text with a keyword and a quoted specifier, all of it enclosed
C22_Witness ==
  /\ phase = "done"
  /\ NoKeywordInCode(text)
  /\ \E k \in Occurrences(text, kwImport) :
       /\ Enclosed(text, k)
       /\ ~InLongerWord(text, k, kwImport)
       /\ Occurrences(SliceFrom(text, k), <<"'", ".", "/", "a", "'">>) # {}
\* the characters of a text from offset i up to end, comments left out
RECURSIVE Uncommented(_, _, _)
Uncommented(content, i, end) ==
  IF i >= end THEN <<>>
  ELSE IF At(content, i) = "/" /\ At(content, i + 1) = "/"
    THEN Uncommented(content, SkipLine(content, i), end)
  ELSE IF At(content, i) = "/" /\ At(content, i + 1) = "*"
    THEN Uncommented(content, SkipBlock(content, i + 2) + 2, end)
  ELSE <<content[i + 1]>> \o Uncommented(content, i + 1, end)

\* the validated keywords, after the match before the j-th, whose
\* statement reaches the specifier of the j-th match
Owners(content, matches, j) ==
  LET lo == IF j = 1 THEN 0 ELSE matches[j - 1].offset + matches[j - 1].length
  IN { k \in lo .. matches[j].offset :
         \E keyword \in {kwImport, kwExport} :
           /\ k \in Occurrences(content, keyword)
           /\ isRealKeyword(content, k, keyword)
           /\ ~isInCommentOrString(content, k)
           /\ \E r \in {ScanStatement(content, k + Len(keyword))} :
                r.match # <<>> /\ r.match[1].offset = matches[j].offset }

\* the offset just after the keyword of the statement that captured the
\* j-th match: the first of its owners
StatementBody(content, matches, j) ==
  MinOf(Owners(content, matches, j)) + Len(kwImport)

\* the statement of the j-th match from its keyword to its specifier
StatementText(content, matches, j) ==
  Uncommented(content, StatementBody(content, matches, j), matches[j].offset)

\* the same without the whitespace and the `type` after the keyword
StatementNames(content, matches, j) ==
  LET i1 == SkipWs(content, StatementBody(content, matches, j))
      i2 == IF Substring(content, i1, i1 + 4) = kwType
            THEN SkipWs(content, i1 + 4) ELSE i1
  IN Uncommented(content, i2, matches[j].offset)

\* a text holds the word from between two whitespace characters
HasFromToken(t) ==
  \E q \in 2 .. (Len(t) - 4) :
    SubSeq(t, q, q + 3) = kwFrom /\ IsWs(t[q - 1]) /\ IsWs(t[q + 4])

Chars(t) == { t[q] : q \in DOMAIN t }

\* C23 as stated: a captured specifier is `side-effect` exactly when its
\* statement has no from token and no opened brace before the specifier
C23_SideEffectIffBare ==
  phase = "done" =>
    \A j \in DOMAIN results :
      results[j].type = "side-effect"
        <=> (~HasFromToken(StatementText(text, results, j))
             /\ "{" \notin Chars(StatementText(text, results, j)))

(* C23 amended: a captured specifier is `side-effect` exactly when, between *)
(* the keyword (and an optional `type`) and the specifier, the statement   *)
(* has outside comments no from token, no opened brace, no asterisk and no *)
(* word character; `import './a'` is side-effect, `import {a} from './a'`  *)
(* is from.                                                                 *)
C23_SideEffectIffNothingNamed ==
  phase = "done" =>
    \A j \in DOMAIN results :
      results[j].type = "side-effect"
        <=> Chars(StatementNames(text, results, j)) \cap ({"{", "*"} \cup WordChars) = {}

\* a scan that classified a specifier after a bare word, with neither from
\* nor brace, as `from`
C23_Witness ==
  /\ phase = "done"
  /\ \E j \in DOMAIN results :
       /\ results[j].type = "from"
       /\ ~HasFromToken(StatementText(text, results, j))
       /\ "{" \notin Chars(StatementText(text, results, j))
       /\ "a" \in Chars(StatementNames(text, results, j))
\* every iteration of the inner loop that does not leave it moves i on
InnerAdvances(content) ==
  \A i \in 0 .. (Len(content) - 1), braceLevel \in {0, 1} :
    \A r \in {InnerStep(content, i, braceLevel, FALSE, TRUE)} :
      ~r.left => r.i > i

(* C24: findAllImports terminates with a list for every text: a scan that  *)
(* has not returned can always take a step that changes its state, each    *)
(* iteration of the outer loop that does not end the scan moves the        *)
(* position on (and the loop runs only while the position is inside the    *)
(* text), and each iteration of the inner loop that does not leave it      *)
(* moves the position on.                                                   *)
C24_ScanTerminates ==
  /\ [](phase = "scan" => ENABLED <<ScanStep \/ ScanReturn>>_vars)
  /\ [][(phase = "scan" /\ phase' = "scan") => (si < Len(text) /\ si' > si)]_vars
  /\ [](phase = "done" => InnerAdvances(text))

\* a finished scan of a text with an unbalanced brace and a keyword at its
\* very end
C24_Witness ==
  /\ phase = "done"
  /\ EndsWith(text, kwImport)
  /\ isRealKeyword(text, Len(text) - Len(kwImport), kwImport)
  /\ ~isInCommentOrString(text, Len(text) - Len(kwImport))
  /\ "}" \in Chars(text)
\* the offset of the keyword whose statement captured the j-th match
KeywordOf(content, matches, j) == StatementBody(content, matches, j) - Len(kwImport)

(* C25: the matches of findAllImports are in source order and pairwise     *)
(* disjoint -- a match ends at or before the offset of the next -- and a   *)
(* validated keyword yields at most one match: the keywords of the matches *)
(* are distinct, each before its match and after the match before it.      *)
C25_MatchesOrdered ==
  \A j \in DOMAIN results :
    /\ j > 1 => results[j - 1].offset + results[j - 1].length <= results[j].offset
    /\ Owners(text, results, j) # {}
    /\ KeywordOf(text, results, j) < results[j].offset
    /\ j > 1 => KeywordOf(text, results, j - 1) < KeywordOf(text, results, j)

\* a scan that returned two matches
C25_Witness == phase = "done" /\ Len(results) >= 2
\* the files with an edit group in the result
GroupedFiles == { moveResult.edits[n].uri : n \in DOMAIN moveResult.edits }

\* the renames of the batch have different old paths
DistinctOldPaths ==
  \A j, k \in DOMAIN moveBatch :
    moveBatch[j].oldPath = moveBatch[k].oldPath => j = k

(* C26: the workspace edit computeRenameEdits returns has at most one edit *)
(* group per file, also for a batch of several renames with a dependent in *)
(* common, and the touched-file set is the set of files with an edit       *)
(* group.                                                                   *)
C26_OneGroupPerFile ==
  (movePhase = "done" /\ ~moveResult.threw /\ DistinctOldPaths) =>
    /\ \A m, n \in DOMAIN moveResult.edits :
         moveResult.edits[m].uri = moveResult.edits[n].uri => m = n
    /\ moveResult.filesToRefresh = GroupedFiles
\* the candidate files of the batch that cannot be read: not open and not
\* on disk
Unreadable ==
  { f \in CandidateFiles(moveBatch, graph) : f \notin DOMAIN docs /\ f \notin DOMAIN disk }

\* the edit groups of a workspace edit
Groups(documentChanges) == { documentChanges[n] : n \in DOMAIN documentChanges }

\* no import of a candidate file names the old path of a served rename
NothingMatches ==
  \A f \in CandidateFiles(moveBatch, graph), k \in DOMAIN moveBatch :
    moveBatch[k].outcome = "service" =>
      \A im \in {findAllImports(ReadContent(docs, disk, f))} :
        \A n \in DOMAIN im : ~SpecifierHits(moveBatch[k].oldPath, PathDirname(f), im[n])

-----------------------------------------------------------------------------
\* the step of build that calls resolveInitialBuild()
BuildResolves == ~ready /\ ready'

\* the read of a discovered file failed, or fails in the resolving step
FailedRead(f) ==
  bscan[f] = "failed" \/ (bscan[f] = "pending" /\ f \notin DOMAIN disk)

-----------------------------------------------------------------------------
\* A in imports(B) iff B in importedBy(A), for all paths the graph mentions
EdgesSymmetric(g) ==
  \A A \in Mentioned(g), B \in Mentioned(g) :
    (A \in ImportsOf(g, B)) <=> (B \in ImportedByOf(g, A))

\* the step of build that holds its node-creation pass
NodeCreationPass == bpc = "list" /\ bpc' # "list"

(* C29: while the graph is being built and after it, at every point where   *)
(* build or the change pipeline has yielded control, A is in imports(B) iff *)
(* B is in importedBy(A); and build's node-creation pass discards no edge   *)
(* that an addOrUpdateFile call of the change pipeline has recorded.        *)
C29_SymmetricWhileBuilding ==
  /\ [](EdgesSymmetric(graph))
  /\ [][NodeCreationPass =>
          \A p \in DOMAIN graph :
            /\ graph[p].imports \subseteq ImportsOf(graph', p)
            /\ graph[p].importedBy \subseteq ImportedByOf(graph', p)]_vars

-----------------------------------------------------------------------------
\* executeQueue stages its batch in the engine and begins its diagnostics
BatchStages == qpc = "group" /\ qpc' = "diag"

\* executeQueue goes on to the diagnostics of the next document of its batch
BatchDiagnoses == qpc = "diag" /\ qpc' = "diag" /\ qdocs' # qdocs

\* a propagation pass begins the diagnostics of one more document
PassDiagnoses ==
  \E k \in DOMAIN passes :
    k \in DOMAIN passes' /\ passes'[k].begun # passes[k].begun

(* C30: while a rename barrier is held, from its creation by will-rename    *)
(* to its release by did-rename, neither an executeQueue batch (one begun   *)
(* before the barrier was created included) nor a propagation pass stages   *)
(* a document in the engine or goes on to compute diagnostics.              *)
C30_BarrierExcludesPipeline ==
  [][BarrierHeld(activeRenameBarrier) =>
       ~(BatchStages \/ BatchDiagnoses \/ PassDiagnoses)]_vars

-----------------------------------------------------------------------------
(* C39: a statement scanned by findAllImports ends at the first ';' or      *)
(* newline after its keyword or once a specifier is captured: between the   *)
(* keyword of a match and its specifier, comments left out, there is no     *)
(* ';' and no newline.                                                      *)
C39_StatementEndsAtLineEnd ==
  phase = "done" =>
    \A j \in DOMAIN results :
      Chars(StatementText(text, results, j)) \cap {";", "\n"} = {}

-----------------------------------------------------------------------------
PosBefore(p, q) ==
  p.line < q.line \/ (p.line = q.line /\ p.character < q.character)

\* two ranges are identical or overlap
RangesClash(r1, r2) ==
  r1 = r2 \/ (PosBefore(r1.start, r2.end) /\ PosBefore(r2.start, r1.end))

\* the text edits of one file in the result of computeRenameEdits, each
\* with the edit group and the place in the group it stands at
MoveEditsOf(uri) ==
  { <<g, m>> \in (DOMAIN moveResult.edits) \X (1 .. 8) :
      /\ moveResult.edits[g].uri = uri
      /\ m \in DOMAIN moveResult.edits[g].edits }

\* the engine reported no location twice
DistinctLocations ==
  \A m, n \in DOMAIN symLocs : symLocs[m] = symLocs[n] => m = n

(* C38: within any single file no two text edits of a returned workspace    *)
(* edit have identical or overlapping ranges: for computeRenameEdits over   *)
(* every batch of renames with different old paths, and for handleRename    *)
(* over distinct engine locations, no edit of alias propagation clashes     *)
(* with another edit of its file.                                           *)
C38_NoClashingEdits ==
  /\ (movePhase = "done" /\ ~moveResult.threw /\ DistinctOldPaths) =>
       \A x \in GroupedFiles :
         \A e1 \in MoveEditsOf(x), e2 \in MoveEditsOf(x) :
           e1 # e2 =>
             ~RangesClash(moveResult.edits[e1[1]].edits[e1[2]].range,
                          moveResult.edits[e2[1]].edits[e2[2]].range)
  /\ (symPhase = "done" /\ symResult = "edit" /\ DistinctLocations) =>
       \A u \in DOMAIN symChanges :
         \A m \in DOMAIN symChanges[u], n \in DOMAIN symChanges[u] :
           (m # n /\ symChanges[u][m].origin = 0) =>
             ~RangesClash(symChanges[u][m].range, symChanges[u][n].range)

-----------------------------------------------------------------------------
(* C32: at most one service instance is ever created per project path: for *)
(* every interleaving of concurrent ensureServiceForSourcePath calls for    *)
(* files of one project the factory TSService is invoked at most once, and  *)
(* all calls that returned were given the same instance.                    *)
C32_OneServicePerProject ==
  /\ spawned <= 1
  /\ \A c, d \in DOMAIN ensureCalls :
       (ensureCalls[c].pc = "done" /\ ensureCalls[d].pc = "done")
         => ensureCalls[c].service = ensureCalls[d].service

\* a will-rename handler that awaits dependencyGraph.isReady resumes only
\* when build() has called resolveInitialBuild()
AwaitsReadiness(id) == wills[id].pc = "awaitReady"

\* build() was never called and never will be: no rootDir
BuildNeverStarts == bpc = "off"

\* C37: every will-rename request receives its response in every server
\* configuration: no handler is left awaiting a graph readiness that cannot
\* come, as in a server initialized without a workspace root
C37_WillRenameResponds ==
  \A id \in DOMAIN wills : AwaitsReadiness(id) => ~BuildNeverStarts

\* scheduleExecuteQueue starts a timer
TimerStarts == qpc' = "timer" /\ qpc # "timer"

\* executeQueue ends after the diagnostics of the last document of its batch
BatchEnds == qpc = "diag" /\ qdocs' = {}

\* C33: at most one executeQueue batch is scheduled or running: the slot
\* executeTimeout is set exactly while a timer or a batch is there, and a
\* timer starts only when none is scheduled or running, or as the last
\* step of the batch that ends
C33_OneBatchAtATime ==
  /\ [](executeTimeout <=> qpc # "idle")
  /\ [][TimerStarts => (qpc = "idle" /\ ~executeTimeout) \/ BatchEnds]_vars

\* a document was changed while a batch was running or waiting
C33_Witness ==
  /\ qpc \in {"barrier", "group", "diag"}
  /\ changeQueue # {}
  /\ executeTimeout

\* no batch is scheduled, running or owed
QueueDrained == changeQueue = {} /\ qpc = "idle"

\* C35: every promise obtained from updating(document) is resolved once the
\* change queue has drained: no request handler is left awaiting the update
\* of a document, also when the document changed again in between
C35_UpdatingResolves ==
  QueueDrained => \A r \in requests : r.pc \in {"resumed", "threw"}

\* every will-rename has had its did-rename, and every did-rename handler
\* has run to its end
AllRenamesDone == outstanding = <<>> /\ dids = {}

\* an executeQueue run that waits on a barrier nobody has resolved
WaitsOnUnreleased == qpc = "barrier" /\ qfound \notin released

\* C31: every Barrier a will-rename created is released by the did-rename
\* that follows it, and every executeQueue run that started waiting on a
\* Barrier can resume: once every did-rename has run to its end no Barrier
\* is unreleased and no run waits on one, also when a second will-rename
\* arrived before the first did-rename
C31_BarrierReleased ==
  AllRenamesDone => Unreleased = {} /\ ~WaitsOnUnreleased

\* a timer or a batch is there that will take the change queue
BatchWillRun ==
  \/ qpc \in {"timer", "group", "diag"}
  \/ qpc = "barrier" /\ qfound \in released

\* C34: no lost wake-up in the change queue: when the did-renames have
\* followed their will-renames and no engine call has failed, a document in
\* the change queue has a timer or a batch that will stage it, also a
\* document added while a batch runs or waits on the Barrier
C34_NoLostWakeUp ==
  (AllRenamesDone /\ qpc # "threw" /\ changeQueue # {}) => BatchWillRun

\* the build is complete and every content-change, queue and rename handler
\* has run to its end
Quiescent ==
  /\ ready
  /\ contentWaiters = {}
  /\ changeQueue = {}
  /\ qpc = "idle"
  /\ AllRenamesDone
  /\ \A id \in DOMAIN wills : wills[id].pc \in {"responded", "threw"}

\* C36: the graph converges to the editor's content: at rest the imports
\* the graph has for the path of an open document are exactly the resolved
\* relative import targets of the document's text
C36_GraphConverges ==
  Quiescent => \A d \in DOMAIN docs : ImportsIn(graph, d) = Targets(d, docs[d])

=============================================================================
